---- MODULE Spec2Model ----
(***************************************************************************)
(* SenseLabV2: the analysis store kept in the senselab_analyses cookie     *)
(* (src/src/actions/analysis.actions.ts), the tester progress engine       *)
(* (startTesting / completeRoom) and the places that derive the 12 hour    *)
(* activation window; the simulated room hardware (MockRoomControlState    *)
(* behind roomControlService, src/unnamed/part_010); and the room visit    *)
(* workflow of the testing page (handleConfirmLocation and handleSubmit,   *)
(* src/src/components/tester-analysis-table.tsx).                          *)
(*                                                                         *)
(* Time is counted in hours.  An absent optional value (undefined) is the  *)
(* number 0; the clock starts at 1 so that every Date is non-zero.         *)
(***************************************************************************)
EXTENDS Integers, Sequences, FiniteSets, TLC

VARIABLES cookie, now, ret, visit, pc, loc, res, hw, gw, wf

vars == <<cookie, now, ret, visit, pc, loc, res, hw, gw, wf>>

(***************************************************************************)
(* Bounds of the model                                                     *)
(***************************************************************************)
MaxNow == 2
MaxClock == 15
RandomResolution == 3

(***************************************************************************)
(* Program constants                                                       *)
(***************************************************************************)
Undefined == 0
MinRoomNumber == 1
MaxRoomNumber == 8
MinRooms == 1
MaxRooms == 8
MinPanel == 1
MaxPanel == 6
ExpiryHours == 12

(***************************************************************************)
(* Identifiers and inputs                                                  *)
(***************************************************************************)
AnalysisIds == {"a1"}
Testers == {"t1", "t2"}
Clients == {"c1", "c2"}
\* c1 is the browser of the coordinator, who is also panelist t1; c2 is the
\* browser of panelist t2
Coordinators == {"c1"}
TesterOf(c) == IF c = "c1" THEN "t1" ELSE "t2"

\* roomAssignments handed to saveAnalysis (room numbers only)
RoomLists == { <<1, 2>>, <<2, 2>>, <<>>, <<1, 9>>, <<1, 2, 3, 4, 5, 6, 7, 8, 1>> }
\* panelMemberIds handed to saveAnalysis
PanelLists == { <<"t1">>, <<"t1", "t2">>, <<>> }
\* roomNumber arguments of completeRoom
RoomArgs == {1, 2, 3, 9}
\* inputs of the single-panelist walk
SoloRoomLists == { <<1>>, <<2, 1>>, <<3, 1, 2>>, <<2, 2>> }
\* inputs of the interleaved store
ConcRoomLists == { <<1, 2>> }
ConcPanelLists == { <<"t1", "t2">> }
ConcRoomArgs == {1, 2}

(***************************************************************************)
(* Array helpers                                                           *)
(***************************************************************************)
Range(s) == { s[i] : i \in 1..Len(s) }

\* Array.prototype.includes
Includes(s, x) == \E i \in 1..Len(s) : s[i] = x

Min(S) == CHOOSE x \in S : \A y \in S : x <= y

\* Array.prototype.findIndex over analyses, 1-based; 0 when there is none
FindIndex(list, analysisId) ==
  IF \E i \in 1..Len(list) : list[i].analysisId = analysisId
  THEN Min({ i \in 1..Len(list) : list[i].analysisId = analysisId })
  ELSE 0

\* a find that takes the first record, whoever it belongs to
FindProgress_FirstRecord(progress, testerId) ==
  IF Len(progress) > 0 THEN 1 ELSE 0

\* testerProgress.find((tp) => tp.testerId === testerId), as an index
FindProgress(progress, testerId) ==
  IF \E i \in 1..Len(progress) : progress[i].testerId = testerId
  THEN Min({ i \in 1..Len(progress) : progress[i].testerId = testerId })
  ELSE 0

\* Math.floor(Math.random() * length), Math.random() = rnd / RandomResolution
RandomIndex(rnd, length) == (rnd * length) \div RandomResolution

RandomDraws == 0..(RandomResolution - 1)

(***************************************************************************)
(* Validation schemas                                                      *)
(***************************************************************************)
RoomAssignmentSchema(roomNumber) ==
  roomNumber >= MinRoomNumber /\ roomNumber <= MaxRoomNumber

TesterProgressSchema(tp) ==
  /\ \A i \in 1..Len(tp.completedRoomNumbers) :
        /\ tp.completedRoomNumbers[i] >= MinRoomNumber
        /\ tp.completedRoomNumbers[i] <= MaxRoomNumber
  /\ \/ tp.currentRoomNumber = Undefined
     \/ /\ tp.currentRoomNumber >= MinRoomNumber
        /\ tp.currentRoomNumber <= MaxRoomNumber

AnalysisSchema(a) ==
  /\ Len(a.roomAssignments) >= MinRooms
  /\ Len(a.roomAssignments) <= MaxRooms
  /\ \A i \in 1..Len(a.roomAssignments) : RoomAssignmentSchema(a.roomAssignments[i])
  /\ Len(a.panelMemberIds) >= MinPanel
  /\ Len(a.panelMemberIds) <= MaxPanel
  /\ \A i \in 1..Len(a.testerProgress) : TesterProgressSchema(a.testerProgress[i])

(***************************************************************************)
(* The store                                                               *)
(***************************************************************************)
\* parsing that resets isActive instead of defaulting it
ParseAnalysis_ResetsActive(a) ==
  [a EXCEPT !.activatedAt = IF a.activatedAt # Undefined THEN a.activatedAt ELSE Undefined,
            !.isActive = FALSE]

\* JSON.parse of the cookie, dates revived, missing fields defaulted
ParseAnalysis(a) ==
  [a EXCEPT !.activatedAt = IF a.activatedAt # Undefined THEN a.activatedAt ELSE Undefined,
            !.isActive = a.isActive]

GetAnalyses(value) == [ i \in 1..Len(value) |-> ParseAnalysis(value[i]) ]

NoAnalysis == [analysisId |-> "none"]

GetAnalysisById(value, analysisId) ==
  LET list == GetAnalyses(value)
      idx == FindIndex(list, analysisId)
  IN  IF idx = 0 THEN [success |-> FALSE, data |-> NoAnalysis]
      ELSE [success |-> TRUE, data |-> list[idx]]

\* a new analysis as the data model has it at creation: the dialog's fields,
\* inactive, no activatedAt, no progress
NewAnalysis(analysisId, roomAssignments, panelMemberIds, t) ==
  [ analysisId      |-> analysisId,
    projectCode     |-> "p1",
    roomAssignments |-> roomAssignments,
    panelMemberIds  |-> panelMemberIds,
    createdAt       |-> t,
    isActive        |-> FALSE,
    activatedAt     |-> Undefined,
    testerProgress  |-> <<>> ]

\* saveAnalysis after validation: the list to write, given the list read
SaveList(existing, analysis) ==
  IF FindIndex(existing, analysis.analysisId) # 0
  THEN [success |-> FALSE, list |-> existing]
  ELSE [success |-> TRUE, list |-> Append(existing, analysis)]

\* updateAnalysis after validation: the list to write, given the list read
UpdateList(existing, analysis) ==
  LET analysisIndex == FindIndex(existing, analysis.analysisId)
  IN  IF analysisIndex = 0
      THEN [success |-> FALSE, list |-> existing]
      ELSE [success |-> TRUE, list |-> [existing EXCEPT ![analysisIndex] = analysis]]

\* deleteAnalysis: the list to write, given the list read
DeleteList(existing, analysisId) ==
  LET updated == SelectSeq(existing, LAMBDA a : a.analysisId # analysisId)
  IN  IF Len(updated) = Len(existing)
      THEN [success |-> FALSE, list |-> existing]
      ELSE [success |-> TRUE, list |-> updated]

\* saveAnalysis as one uninterrupted call
SaveAnalysis(value, analysis) ==
  IF ~AnalysisSchema(analysis)
  THEN [success |-> FALSE, list |-> value]
  ELSE SaveList(GetAnalyses(value), analysis)

\* updateAnalysis that puts the record in before it validates it
UpdateAnalysis_ValidatesLate(value, analysis) ==
  IF ~AnalysisSchema(analysis)
  THEN [success |-> FALSE, list |-> UpdateList(GetAnalyses(value), analysis).list]
  ELSE UpdateList(GetAnalyses(value), analysis)

\* updateAnalysis as one uninterrupted call
UpdateAnalysis(value, analysis) ==
  IF ~AnalysisSchema(analysis)
  THEN [success |-> FALSE, list |-> value]
  ELSE UpdateList(GetAnalyses(value), analysis)

(***************************************************************************)
(* Activation and the tester progress engine: what each operation does to  *)
(* the analysis it read, before it hands it to updateAnalysis              *)
(***************************************************************************)
\* activation that forgets the timestamp
ActivateAnalysisPrep_NoTimestamp(analysis, t) ==
  [analysis EXCEPT !.isActive = TRUE]

\* activateAnalysis lines 318-320
ActivateAnalysisPrep(analysis, t) ==
  [analysis EXCEPT !.isActive = TRUE, !.activatedAt = t]

NewProgress(testerId, assignedRoom, t) ==
  [ testerId             |-> testerId,
    completedRoomNumbers |-> <<>>,
    currentRoomNumber    |-> assignedRoom,
    startedAt            |-> t,
    lastUpdatedAt        |-> t ]

\* startTesting that draws a room again for a panelist who already has one
StartTestingPrep_Redraw(analysis, testerId, rnd, t) ==
  LET idx == FindProgress(analysis.testerProgress, testerId)
      availableRooms == analysis.roomAssignments
      assignedRoom == availableRooms[RandomIndex(rnd, Len(availableRooms)) + 1]
  IN  IF idx = 0
      THEN [ analysis |-> [analysis EXCEPT !.testerProgress =
                              Append(@, NewProgress(testerId, assignedRoom, t))],
             assignedRoomNumber |-> assignedRoom ]
      ELSE [ analysis |-> [analysis EXCEPT !.testerProgress[idx].lastUpdatedAt = t,
                                           !.testerProgress[idx].currentRoomNumber = assignedRoom],
             assignedRoomNumber |-> assignedRoom ]

\* startTesting lines 349-369: find or create the tester's progress
StartTestingPrep(analysis, testerId, rnd, t) ==
  LET idx == FindProgress(analysis.testerProgress, testerId)
      availableRooms == analysis.roomAssignments
      assignedRoom == availableRooms[RandomIndex(rnd, Len(availableRooms)) + 1]
  IN  IF idx = 0
      THEN [ analysis |-> [analysis EXCEPT !.testerProgress =
                              Append(@, NewProgress(testerId, assignedRoom, t))],
             assignedRoomNumber |-> assignedRoom ]
      ELSE [ analysis |-> [analysis EXCEPT !.testerProgress[idx].lastUpdatedAt = t],
             assignedRoomNumber |-> analysis.testerProgress[idx].currentRoomNumber ]

\* completeRoom that starts the list over with the room just completed
MarkCompleted_StartsOver(completedRoomNumbers, roomNumber) ==
  <<roomNumber>>

\* completeRoom that pushes the room without looking for it first
MarkCompleted_AlwaysPush(completedRoomNumbers, roomNumber) ==
  Append(completedRoomNumbers, roomNumber)

\* completeRoom lines 413-416
MarkCompleted(completedRoomNumbers, roomNumber) ==
  IF ~Includes(completedRoomNumbers, roomNumber)
  THEN Append(completedRoomNumbers, roomNumber)
  ELSE completedRoomNumbers

\* completeRoom lines 419-420
IsComplete(completedRoomNumbers, totalRooms) ==
  Len(completedRoomNumbers) >= totalRooms

\* remaining rooms without the filter on completed rooms
RemainingRooms_Unfiltered(roomAssignments, completedRoomNumbers) ==
  roomAssignments

\* completeRoom lines 426-428
RemainingRooms(roomAssignments, completedRoomNumbers) ==
  SelectSeq(roomAssignments, LAMBDA rn : ~Includes(completedRoomNumbers, rn))

\* completeRoom that leaves currentRoomNumber in place when all rooms are done
NextRoom_KeepsCurrent(tp, completed, roomAssignments, rnd) ==
  LET remainingRooms == RemainingRooms(roomAssignments, completed)
  IN  IF ~IsComplete(completed, Len(roomAssignments))
      THEN IF Len(remainingRooms) > 0
           THEN [ current |-> remainingRooms[RandomIndex(rnd, Len(remainingRooms)) + 1],
                  next    |-> remainingRooms[RandomIndex(rnd, Len(remainingRooms)) + 1] ]
           ELSE [ current |-> tp.currentRoomNumber, next |-> Undefined ]
      ELSE [ current |-> tp.currentRoomNumber, next |-> Undefined ]

\* completeRoom lines 422-439: the new currentRoomNumber and the returned
\* nextRoomNumber
NextRoom(tp, completed, roomAssignments, rnd) ==
  LET remainingRooms == RemainingRooms(roomAssignments, completed)
  IN  IF ~IsComplete(completed, Len(roomAssignments))
      THEN IF Len(remainingRooms) > 0
           THEN [ current |-> remainingRooms[RandomIndex(rnd, Len(remainingRooms)) + 1],
                  next    |-> remainingRooms[RandomIndex(rnd, Len(remainingRooms)) + 1] ]
           ELSE [ current |-> tp.currentRoomNumber, next |-> Undefined ]
      ELSE [ current |-> Undefined, next |-> Undefined ]

\* completeRoom that writes back only the record of the panelist who called
CompleteRoomPrep_DropsOthers(analysis, idx, roomNumber, rnd, t) ==
  LET tp == analysis.testerProgress[idx]
      completed == MarkCompleted(tp.completedRoomNumbers, roomNumber)
      nr == NextRoom(tp, completed, analysis.roomAssignments, rnd)
  IN  [ analysis |-> [analysis EXCEPT !.testerProgress =
                        << [tp EXCEPT !.completedRoomNumbers = completed,
                                      !.currentRoomNumber = nr.current,
                                      !.lastUpdatedAt = t] >>],
        nextRoomNumber |-> nr.next,
        isComplete |-> IsComplete(completed, Len(analysis.roomAssignments)) ]

\* completeRoom lines 413-441, for the progress record found at idx
CompleteRoomPrep(analysis, idx, roomNumber, rnd, t) ==
  LET tp == analysis.testerProgress[idx]
      completed == MarkCompleted(tp.completedRoomNumbers, roomNumber)
      nr == NextRoom(tp, completed, analysis.roomAssignments, rnd)
  IN  [ analysis |-> [analysis EXCEPT !.testerProgress[idx] =
                        [tp EXCEPT !.completedRoomNumbers = completed,
                                   !.currentRoomNumber = nr.current,
                                   !.lastUpdatedAt = t]],
        nextRoomNumber |-> nr.next,
        isComplete |-> IsComplete(completed, Len(analysis.roomAssignments)) ]

(***************************************************************************)
(* Results of calls                                                        *)
(***************************************************************************)
\* the last call made and what it returned; repeat tells that the call before
\* it was the same call (same operation, same arguments) and succeeded
Call(op, analysisId, testerId, roomNumber, success, room, isComplete, repeat) ==
  [ op |-> op, analysisId |-> analysisId, testerId |-> testerId,
    roomNumber |-> roomNumber, success |-> success, room |-> room,
    isComplete |-> isComplete, repeat |-> repeat ]

NoRet == Call("none", "none", "none", Undefined, FALSE, Undefined, FALSE, FALSE)

Ret(op, analysisId, testerId, roomNumber, success, room, isComplete) ==
  Call(op, analysisId, testerId, roomNumber, success, room, isComplete,
       /\ ret.op = op /\ ret.analysisId = analysisId /\ ret.testerId = testerId
       /\ ret.roomNumber = roomNumber /\ ret.success)

NoVisit == [ started |-> FALSE, assigned |-> Undefined, calls |-> 0,
             completeAt |-> 0, rooms |-> <<>>, stuck |-> FALSE ]

IdleLoc == [ op |-> "none", analysisId |-> "none", testerId |-> "none",
             roomNumber |-> Undefined, analysis |-> NoAnalysis, list |-> <<>>,
             stale |-> FALSE ]

NoRes == [ client |-> "none", op |-> "none", analysisId |-> "none", testerId |-> "none",
           roomNumber |-> Undefined, success |-> FALSE, stale |-> FALSE, lost |-> {} ]

(***************************************************************************)
(* The simulated room hardware: the fields of MockRoomControlState plus    *)
(* the timers the runtime holds for it                                     *)
(***************************************************************************)
NoSelection == -1
NoTimer == 0
\* the target pressure, 4.87 V, in hundredths of a volt
TargetPressure == 487
RoomStates == {"standby", "pressurizing", "ready", "valve_opened", "error"}

\* lastError = null
NoLastError == "null"

\* timers is the set of armed timers that have neither fired nor been
\* cleared: [id, kind, late, old].  late tells that a later pressurize or
\* openRoom call has run while the timer was armed, old that a standby call
\* has.
MockInit ==
  [ state |-> "standby", pressure |-> 0, selected |-> NoSelection,
    lastError |-> NoLastError, pressurizeTimer |-> NoTimer, openTimer |-> NoTimer,
    timers |-> {}, nextTimer |-> 1 ]

\* a result the gateway hands to a caller.  from and fromSelected are the
\* phase and the selection when the call was made, arg its argument, timer
\* the timer whose expiry resolved the call, polled whether a getStatus was
\* made while the call was pending and alone, seq the number of results
\* handed out so far
NoResult ==
  [ op |-> "none", success |-> FALSE, state |-> "none", pressure |-> 0,
    selected |-> NoSelection, error |-> "none", arg |-> 0, from |-> "none",
    fromSelected |-> NoSelection, timer |-> NoTimer, polled |-> FALSE, seq |-> 0 ]

\* the gateway: the number of calls made, the last result handed to a caller
\* and the calls whose promise is pending: [timer, op, from, fromSelected,
\* alone, polled], where alone tells that no other command has run since the
\* call
\* a gateway call as the workflow that made it sees it: outcome is "ok" for
\* { success: true }, "failed" for { success: false }, "pending" while the
\* call has not returned; state is the state the result carries.  Of a poll
\* only whether it reported ready is kept ("ready" or "other", outcome
\* "polled")
Entry(op, arg, outcome, state) ==
  [ op |-> op, arg |-> arg, outcome |-> outcome, state |-> state ]

\* handleSubmit has not run for the room on screen
NoSubmit ==
  [ called |-> FALSE, success |-> FALSE, isComplete |-> FALSE,
    closeCalled |-> FALSE, closeOk |-> FALSE ]

NoCall == Entry("none", 0, "none", "none")

\* a panelist's testing page before it is loaded.  responses is the list in
\* the browser's responses cookie, each response named by the room it rates;
\* last is the latest
\* gateway call of the latest run of handleConfirmLocation; openedFor is the room
\* that was selected when the run's openRoom was accepted, raced tells that
\* another workflow's selectRoom succeeded between the run's selectRoom and
\* its openRoom, failedPoll that a poll of the run came back without success
NoWorkflow ==
  [ step |-> "away", room |-> Undefined, retries |-> 0, atRoom |-> FALSE,
    error |-> FALSE, await |-> NoTimer, last |-> NoCall, runs |-> 0,
    failedPoll |-> FALSE,
    openedFor |-> NoSelection, raced |-> FALSE, submit |-> NoSubmit,
    responses |-> <<>> ]

GatewayInit == [ calls |-> 0, result |-> NoResult, pending |-> {} ]

Init ==
  /\ hw = MockInit
  /\ gw = GatewayInit
  /\ cookie = <<>>
  /\ now = 1
  /\ ret = NoRet
  /\ visit = NoVisit
  /\ pc = [c \in Clients |-> "idle"]
  /\ loc = [c \in Clients |-> IdleLoc]
  /\ res = NoRes
  /\ wf = [p \in Testers |-> NoWorkflow]

(***************************************************************************)
(* Sequential execution: every server action runs to completion            *)
(***************************************************************************)
Tick(max) ==
  /\ now < max
  /\ now' = now + 1
  /\ UNCHANGED <<wf, hw, gw, cookie, ret, visit, pc, loc, res>>

Create(analysisId, roomAssignments, panelMemberIds) ==
  LET r == SaveAnalysis(cookie, NewAnalysis(analysisId, roomAssignments, panelMemberIds, now))
  IN  /\ cookie' = r.list
      /\ ret' = Ret("create", analysisId, "none", Undefined, r.success, Undefined, FALSE)
      /\ UNCHANGED <<wf, hw, gw, now, visit, pc, loc, res>>

Delete(analysisId) ==
  LET r == DeleteList(GetAnalyses(cookie), analysisId)
  IN  /\ cookie' = r.list
      /\ ret' = Ret("delete", analysisId, "none", Undefined, r.success, Undefined, FALSE)
      /\ UNCHANGED <<wf, hw, gw, now, visit, pc, loc, res>>

Activate(analysisId) ==
  LET result == GetAnalysisById(cookie, analysisId)
      r == UpdateAnalysis(cookie, ActivateAnalysisPrep(result.data, now))
  IN  /\ IF ~result.success
         THEN /\ cookie' = cookie
              /\ ret' = Ret("activate", analysisId, "none", Undefined, FALSE, Undefined, FALSE)
         ELSE /\ cookie' = r.list
              /\ ret' = Ret("activate", analysisId, "none", Undefined, r.success, Undefined, FALSE)
      /\ UNCHANGED <<wf, hw, gw, now, visit, pc, loc, res>>

\* startTesting as one uninterrupted call: the list stored and the result
StartTestingCall(value, analysisId, testerId, rnd, t) ==
  LET result == GetAnalysisById(value, analysisId)
  IN  IF ~result.success
      THEN [list |-> value, success |-> FALSE, room |-> Undefined]
      ELSE IF ~Includes(result.data.panelMemberIds, testerId)
      THEN [list |-> value, success |-> FALSE, room |-> Undefined]
      ELSE LET p == StartTestingPrep(result.data, testerId, rnd, t)
               r == UpdateAnalysis(value, p.analysis)
           IN  IF ~r.success
               THEN [list |-> r.list, success |-> FALSE, room |-> Undefined]
               ELSE [list |-> r.list, success |-> TRUE, room |-> p.assignedRoomNumber]

\* completeRoom as one uninterrupted call: the list stored and the result
CompleteRoomCall(value, analysisId, testerId, roomNumber, rnd, t) ==
  LET result == GetAnalysisById(value, analysisId)
      noRes == [list |-> value, success |-> FALSE, room |-> Undefined, isComplete |-> FALSE]
  IN  IF ~result.success
      THEN noRes
      ELSE LET idx == FindProgress(result.data.testerProgress, testerId)
           IN  IF idx = 0
               THEN noRes
               ELSE LET p == CompleteRoomPrep(result.data, idx, roomNumber, rnd, t)
                        r == UpdateAnalysis(value, p.analysis)
                    IN  IF ~r.success
                        THEN noRes
                        ELSE [list |-> r.list, success |-> TRUE,
                              room |-> p.nextRoomNumber, isComplete |-> p.isComplete]

StartTesting(analysisId, testerId, rnd) ==
  LET r == StartTestingCall(cookie, analysisId, testerId, rnd, now)
  IN  /\ cookie' = r.list
      /\ ret' = Ret("startTesting", analysisId, testerId, Undefined, r.success, r.room, FALSE)
      /\ UNCHANGED <<wf, hw, gw, now, visit, pc, loc, res>>

CompleteRoom(analysisId, testerId, roomNumber, rnd) ==
  LET r == CompleteRoomCall(cookie, analysisId, testerId, roomNumber, rnd, now)
  IN  /\ cookie' = r.list
      /\ ret' = Ret("completeRoom", analysisId, testerId, roomNumber, r.success, r.room,
                    r.isComplete)
      /\ UNCHANGED <<wf, hw, gw, now, visit, pc, loc, res>>

Next ==
  \/ \E id \in AnalysisIds, rl \in RoomLists, pl \in PanelLists : Create(id, rl, pl)
  \/ \E id \in AnalysisIds : Delete(id)
  \/ \E id \in AnalysisIds : Activate(id)
  \/ \E id \in AnalysisIds, t \in Testers, rnd \in RandomDraws : StartTesting(id, t, rnd)
  \/ \E id \in AnalysisIds, t \in Testers, r \in RoomArgs, rnd \in RandomDraws :
        CompleteRoom(id, t, r, rnd)

Spec == Init /\ [][Next]_vars

(***************************************************************************)
(* One panelist walking through the rooms of one analysis: startTesting,   *)
(* then completeRoom with the room last assigned, until isComplete         *)
(***************************************************************************)
MaxCalls == 5

SoloCreate(roomAssignments) ==
  LET r == SaveAnalysis(cookie, NewAnalysis("a1", roomAssignments, <<"t1">>, now))
  IN  /\ cookie = <<>>
      /\ cookie' = r.list
      /\ UNCHANGED <<wf, hw, gw, now, ret, visit, pc, loc, res>>

SoloActivate ==
  LET result == GetAnalysisById(cookie, "a1")
      r == UpdateAnalysis(cookie, ActivateAnalysisPrep(result.data, now))
  IN  /\ result.success
      /\ ~result.data.isActive
      /\ cookie' = r.list
      /\ UNCHANGED <<wf, hw, gw, now, ret, visit, pc, loc, res>>

SoloStart(rnd) ==
  LET r == StartTestingCall(cookie, "a1", "t1", rnd, now)
  IN  /\ ~visit.started
      /\ r.success
      /\ cookie' = r.list
      /\ visit' = [visit EXCEPT !.started = TRUE, !.assigned = r.room]
      /\ UNCHANGED <<wf, hw, gw, now, ret, pc, loc, res>>

SoloComplete(rnd) ==
  LET r == CompleteRoomCall(cookie, "a1", "t1", visit.assigned, rnd, now)
  IN  /\ visit.started
      /\ visit.completeAt = 0
      /\ ~visit.stuck
      /\ visit.assigned # Undefined
      /\ visit.calls < MaxCalls
      /\ cookie' = r.list
      /\ visit' = [visit EXCEPT
                     !.calls = @ + 1,
                     !.rooms = Append(@, visit.assigned),
                     !.assigned = r.room,
                     !.stuck = ~r.success,
                     !.completeAt = IF r.success /\ r.isComplete THEN visit.calls + 1 ELSE 0]
      /\ UNCHANGED <<wf, hw, gw, now, ret, pc, loc, res>>

NextSolo ==
  \/ Tick(MaxNow)
  \/ \E rl \in SoloRoomLists : SoloCreate(rl)
  \/ SoloActivate
  \/ \E rnd \in RandomDraws : SoloStart(rnd)
  \/ \E rnd \in RandomDraws : SoloComplete(rnd)

SpecSolo == Init /\ [][NextSolo]_vars

(***************************************************************************)
(* Interleaved execution: every await on the cookie store is a step of its *)
(* own.  A call reads the analysis (getAnalysisById), prepares and         *)
(* validates the new record, reads the list again inside updateAnalysis,   *)
(* and then writes the whole list.                                         *)
(***************************************************************************)
\* the (panelist, room) completions recorded in a stored list
Completions(value) ==
  UNION { UNION { { <<value[i].testerProgress[j].testerId, r>> :
                      r \in Range(value[i].testerProgress[j].completedRoomNumbers) } :
                  j \in 1..Len(value[i].testerProgress) } :
          i \in 1..Len(value) }

\* what the call of client c returns.  stale tells that another call wrote
\* the store between this call's first read and its write; lost is the set of
\* completions that were stored just before this call's write and are not
\* stored after it
Res(c, success, lost) ==
  [ client |-> c, op |-> loc[c].op, analysisId |-> loc[c].analysisId,
    testerId |-> loc[c].testerId, roomNumber |-> loc[c].roomNumber,
    success |-> success, stale |-> loc[c].stale, lost |-> lost ]

Fail(c, op, analysisId, testerId, roomNumber) ==
  /\ res' = [ client |-> c, op |-> op, analysisId |-> analysisId,
              testerId |-> testerId, roomNumber |-> roomNumber,
              success |-> FALSE, stale |-> FALSE, lost |-> {} ]
  /\ UNCHANGED <<wf, hw, gw, cookie, now, ret, visit, pc, loc>>

\* the call has its record ready and goes on into updateAnalysis
Proceed(c, op, analysisId, testerId, roomNumber, analysis) ==
  IF ~AnalysisSchema(analysis)
  THEN Fail(c, op, analysisId, testerId, roomNumber)
  ELSE /\ pc' = [pc EXCEPT ![c] = "update"]
       /\ loc' = [loc EXCEPT ![c] = [ op |-> op, analysisId |-> analysisId,
                                      testerId |-> testerId, roomNumber |-> roomNumber,
                                      analysis |-> analysis, list |-> <<>>,
                                      stale |-> FALSE ]]
       /\ UNCHANGED <<wf, hw, gw, cookie, now, ret, visit, res>>

\* saveAnalysis up to and including its read of the list
CSaveRead(c, analysisId, roomAssignments, panelMemberIds) ==
  LET analysis == NewAnalysis(analysisId, roomAssignments, panelMemberIds, now)
      r == SaveList(GetAnalyses(cookie), analysis)
  IN  /\ pc[c] = "idle"
      /\ IF ~AnalysisSchema(analysis) \/ ~r.success
         THEN Fail(c, "create", analysisId, "none", Undefined)
         ELSE /\ pc' = [pc EXCEPT ![c] = "write"]
              /\ loc' = [loc EXCEPT ![c] = [ op |-> "create", analysisId |-> analysisId,
                                             testerId |-> "none", roomNumber |-> Undefined,
                                             analysis |-> analysis, list |-> r.list,
                                             stale |-> FALSE ]]
              /\ UNCHANGED <<wf, hw, gw, cookie, now, ret, visit, res>>

\* activateAnalysis up to its call of updateAnalysis
CActivateRead(c, analysisId) ==
  LET result == GetAnalysisById(cookie, analysisId)
  IN  /\ pc[c] = "idle"
      /\ IF ~result.success
         THEN Fail(c, "activate", analysisId, "none", Undefined)
         ELSE Proceed(c, "activate", analysisId, "none", Undefined,
                      ActivateAnalysisPrep(result.data, now))

\* startTesting up to its call of updateAnalysis
CStartRead(c, analysisId, testerId, rnd) ==
  LET result == GetAnalysisById(cookie, analysisId)
  IN  /\ pc[c] = "idle"
      /\ IF ~result.success
         THEN Fail(c, "startTesting", analysisId, testerId, Undefined)
         ELSE IF ~Includes(result.data.panelMemberIds, testerId)
         THEN Fail(c, "startTesting", analysisId, testerId, Undefined)
         ELSE Proceed(c, "startTesting", analysisId, testerId, Undefined,
                      StartTestingPrep(result.data, testerId, rnd, now).analysis)

\* completeRoom up to its call of updateAnalysis
CCompleteRead(c, analysisId, testerId, roomNumber, rnd) ==
  LET result == GetAnalysisById(cookie, analysisId)
      idx == IF result.success THEN FindProgress(result.data.testerProgress, testerId) ELSE 0
  IN  /\ pc[c] = "idle"
      /\ IF ~result.success \/ idx = 0
         THEN Fail(c, "completeRoom", analysisId, testerId, roomNumber)
         ELSE Proceed(c, "completeRoom", analysisId, testerId, roomNumber,
                      CompleteRoomPrep(result.data, idx, roomNumber, rnd, now).analysis)

\* updateAnalysis lines 206-216: read the list and put the record in
CUpdateRead(c) ==
  LET r == UpdateList(GetAnalyses(cookie), loc[c].analysis)
  IN  /\ pc[c] = "update"
      /\ IF ~r.success
         THEN /\ pc' = [pc EXCEPT ![c] = "idle"]
              /\ res' = Res(c, FALSE, {})
              /\ loc' = [loc EXCEPT ![c] = IdleLoc]
              /\ UNCHANGED <<wf, hw, gw, cookie, now, ret, visit>>
         ELSE /\ pc' = [pc EXCEPT ![c] = "write"]
              /\ loc' = [loc EXCEPT ![c].list = r.list]
              /\ UNCHANGED <<wf, hw, gw, cookie, now, ret, visit, res>>

\* cookieStore.set: the whole list is written and the call returns success
CWrite(c) ==
  /\ pc[c] = "write"
  /\ cookie' = loc[c].list
  /\ pc' = [pc EXCEPT ![c] = "idle"]
  /\ res' = Res(c, TRUE, Completions(cookie) \ Completions(loc[c].list))
  /\ loc' = [d \in Clients |->
               IF d = c THEN IdleLoc
               ELSE IF pc[d] # "idle" THEN [loc[d] EXCEPT !.stale = TRUE]
               ELSE loc[d]]
  /\ UNCHANGED <<wf, hw, gw, now, ret, visit>>

NextConc ==
  \/ \E c \in Coordinators, id \in AnalysisIds, rl \in ConcRoomLists, pl \in ConcPanelLists :
        CSaveRead(c, id, rl, pl)
  \/ \E c \in Coordinators, id \in AnalysisIds : CActivateRead(c, id)
  \/ \E c \in Clients, id \in AnalysisIds, rnd \in RandomDraws :
        CStartRead(c, id, TesterOf(c), rnd)
  \/ \E c \in Clients, id \in AnalysisIds, r \in ConcRoomArgs, rnd \in RandomDraws :
        CCompleteRead(c, id, TesterOf(c), r, rnd)
  \/ \E c \in Clients : CUpdateRead(c)
  \/ \E c \in Clients : CWrite(c)

SpecConc == Init /\ [][NextConc]_vars

(***************************************************************************)
(* Interleaved execution over two analyses (SpecCross): the coordinator    *)
(* creates, deletes and activates, a panelist starts and completes, and    *)
(* every call reads the whole list and writes the whole list               *)
(***************************************************************************)
CrossIds == {"a1", "a2"}
CrossRoomLists == { <<1>> }
CrossPanelLists == { <<"t2">> }
CrossRoomArgs == {1}
CrossPanelists == Clients \ Coordinators

\* deleteAnalysis up to and including its read of the list
CDeleteRead(c, analysisId) ==
  LET r == DeleteList(GetAnalyses(cookie), analysisId)
  IN  /\ pc[c] = "idle"
      /\ IF ~r.success
         THEN Fail(c, "delete", analysisId, "none", Undefined)
         ELSE /\ pc' = [pc EXCEPT ![c] = "write"]
              /\ loc' = [loc EXCEPT ![c] = [ op |-> "delete", analysisId |-> analysisId,
                                             testerId |-> "none", roomNumber |-> Undefined,
                                             analysis |-> NoAnalysis, list |-> r.list,
                                             stale |-> FALSE ]]
              /\ UNCHANGED <<wf, hw, gw, cookie, now, ret, visit, res>>

NextCross ==
  \/ \E c \in Coordinators, id \in CrossIds, rl \in CrossRoomLists, pl \in CrossPanelLists :
        CSaveRead(c, id, rl, pl)
  \/ \E c \in Coordinators, id \in CrossIds : CDeleteRead(c, id)
  \/ \E c \in Coordinators, id \in CrossIds : CActivateRead(c, id)
  \/ \E c \in CrossPanelists, id \in CrossIds, rnd \in RandomDraws :
        CStartRead(c, id, TesterOf(c), rnd)
  \/ \E c \in CrossPanelists, id \in CrossIds, r \in CrossRoomArgs, rnd \in RandomDraws :
        CCompleteRead(c, id, TesterOf(c), r, rnd)
  \/ \E c \in Clients : CUpdateRead(c)
  \/ \E c \in Clients : CWrite(c)

SpecCross == Init /\ [][NextCross]_vars

(***************************************************************************)
(* The 12 hour activation window.  The clock counts hours, so the quotient *)
(* (now - activatedAt) / (1000 * 60 * 60) of the code is now - activatedAt *)
(***************************************************************************)
HoursElapsed(activatedAt, t) == t - activatedAt

Max(a, b) == IF a >= b THEN a ELSE b

\* the tester page: TRUE when the page redirects because the window is over
PageGuardExpired(analysis, t) ==
  /\ analysis.isActive
  /\ analysis.activatedAt # Undefined
  /\ HoursElapsed(analysis.activatedAt, t) > ExpiryHours

\* the tester's table: status label
GetAnalysisStatus(analysis, t) ==
  IF ~analysis.isActive THEN "Not Active"
  ELSE IF analysis.activatedAt # Undefined
          /\ HoursElapsed(analysis.activatedAt, t) > ExpiryHours
  THEN "Expired"
  ELSE "Active"

\* the tester's table: time-remaining text
FormatTimeRemaining(activatedAt, t) ==
  LET hoursRemaining == Max(0, ExpiryHours - HoursElapsed(activatedAt, t))
  IN  IF hoursRemaining = 0 THEN "Expired" ELSE "remaining"

\* the coordinator's list: status label
ListAnalysisStatus(analysis, t) ==
  LET totalTesters == Len(analysis.panelMemberIds)
      testersCompleted ==
        Cardinality({ i \in 1..Len(analysis.testerProgress) :
                        Len(analysis.testerProgress[i].completedRoomNumbers)
                          >= Len(analysis.roomAssignments) })
  IN  IF ~analysis.isActive THEN "Not Active"
      ELSE IF analysis.activatedAt # Undefined
              /\ HoursElapsed(analysis.activatedAt, t) > ExpiryHours
      THEN "Expired"
      ELSE IF testersCompleted = totalTesters /\ totalTesters > 0 THEN "Completed"
      ELSE "Active"

\* the coordinator's list: time-left text
ListTimeLeft(activatedAt, t) ==
  LET hoursRemaining == Max(0, ExpiryHours - HoursElapsed(activatedAt, t))
  IN  IF hoursRemaining > 0 THEN "left" ELSE "Expired"

TimeRoomLists == { <<1>>, <<1, 2>> }

NextTime ==
  \/ Tick(MaxClock)
  \/ \E rl \in TimeRoomLists : Create("a1", rl, <<"t1">>)
  \/ Activate("a1")

SpecTime == Init /\ [][NextTime]_vars

(***************************************************************************)
(* State functions used by the properties                                  *)
(***************************************************************************)
Stored == { cookie[i] : i \in 1..Len(cookie) }

ProgressOf(a) == { a.testerProgress[i] : i \in 1..Len(a.testerProgress) }

NoDuplicates(s) == \A i, j \in 1..Len(s) : s[i] = s[j] => i = j

\* completedRoomNumbers of the panelist's stored Progress record (empty when
\* there is none)
CompletedOf(value, analysisId, testerId) ==
  LET result == GetAnalysisById(value, analysisId)
      idx == IF result.success THEN FindProgress(result.data.testerProgress, testerId) ELSE 0
  IN  IF idx = 0 THEN <<>> ELSE result.data.testerProgress[idx].completedRoomNumbers

\* currentRoomNumber of the panelist's stored Progress record
CurrentOf(value, analysisId, testerId) ==
  LET result == GetAnalysisById(value, analysisId)
      idx == IF result.success THEN FindProgress(result.data.testerProgress, testerId) ELSE 0
  IN  IF idx = 0 THEN Undefined ELSE result.data.testerProgress[idx].currentRoomNumber

HasProgress(value, analysisId, testerId) ==
  LET result == GetAnalysisById(value, analysisId)
  IN  result.success /\ FindProgress(result.data.testerProgress, testerId) # 0

(***************************************************************************)
(* Properties of the progress engine under sequential execution (Spec)     *)
(***************************************************************************)

\* C1: every Progress record's completedRoomNumbers has no duplicate and
\* holds only room numbers of the analysis's roomAssignments, whatever
\* roomNumber arguments completeRoom was called with.
C1_ProgressBound ==
  \A a \in Stored : \A tp \in ProgressOf(a) :
    /\ NoDuplicates(tp.completedRoomNumbers)
    /\ Range(tp.completedRoomNumbers) \subseteq Range(a.roomAssignments)

\* C2: for every stored analysis and Progress record, while fewer rooms are
\* completed than there are room assignments, currentRoomNumber is present,
\* is a room number of the analysis and is not completed; and a completeRoom
\* that returned isComplete = false returned such a nextRoomNumber.
C2_CurrentRoomOpen ==
  /\ \A a \in Stored : \A tp \in ProgressOf(a) :
       Len(tp.completedRoomNumbers) < Len(a.roomAssignments) =>
         /\ tp.currentRoomNumber # Undefined
         /\ tp.currentRoomNumber \in Range(a.roomAssignments)
         /\ tp.currentRoomNumber \notin Range(tp.completedRoomNumbers)
  /\ (ret.op = "completeRoom" /\ ret.success /\ ~ret.isComplete) =>
         /\ ret.room # Undefined
         /\ \A a \in Stored : ret.room \in Range(a.roomAssignments)
         /\ ret.room \notin Range(CompletedOf(cookie, ret.analysisId, ret.testerId))

C5_Resumable ==
  [][ ( /\ ret.op = "startTesting" /\ ret.success
        /\ ret'.op = "startTesting" /\ ret'.success
        /\ ret'.analysisId = ret.analysisId /\ ret'.testerId = ret.testerId )
      => /\ ret'.room = ret.room
         /\ CompletedOf(cookie', ret.analysisId, ret.testerId)
              = CompletedOf(cookie, ret.analysisId, ret.testerId)
         /\ CurrentOf(cookie', ret.analysisId, ret.testerId)
              = CurrentOf(cookie, ret.analysisId, ret.testerId) ]_vars

C5_Witness ==
  /\ ret.op = "startTesting" /\ ret.success /\ ret.repeat
  /\ ret.room # Undefined
  /\ CurrentOf(cookie, ret.analysisId, ret.testerId) = ret.room

\* C6: a completeRoom call that directly follows a successful completeRoom
\* call with the same analysis, panelist and room number leaves
\* completedRoomNumbers unchanged.
C6_Idempotent ==
  [][ ( /\ ret.op = "completeRoom" /\ ret.success
        /\ ret'.op = "completeRoom"
        /\ ret'.analysisId = ret.analysisId /\ ret'.testerId = ret.testerId
        /\ ret'.roomNumber = ret.roomNumber )
      => CompletedOf(cookie', ret.analysisId, ret.testerId)
           = CompletedOf(cookie, ret.analysisId, ret.testerId) ]_vars

C6_Witness ==
  /\ ret.op = "completeRoom" /\ ret.success /\ ret.repeat
  /\ Includes(CompletedOf(cookie, ret.analysisId, ret.testerId), ret.roomNumber)

(***************************************************************************)
(* The single-panelist walk (SpecSolo)                                     *)
(***************************************************************************)

WriteBy(c) == pc[c] = "write" /\ pc'[c] = "idle"

IsStored(value, analysisId) == FindIndex(value, analysisId) # 0

IsActiveIn(value, analysisId) ==
  IsStored(value, analysisId) /\ value[FindIndex(value, analysisId)].isActive

ProgressOps == {"activate", "startTesting", "completeRoom"}

\* C7: a successful completeRoom call leaves its own completion stored, and a
\* completion that was stored is lost by a successful call only when another
\* call wrote the store between that call's read and its write; and (witness)
\* two interleaved completeRoom calls of two panelists both return success
\* while the store keeps the completion of only one of them.
C7_LostOnlyWhenInterleaved ==
  /\ (res.success /\ res.lost # {}) => res.stale
  /\ (res.success /\ res.op = "completeRoom") =>
        <<res.testerId, res.roomNumber>> \in Completions(cookie)

C7_LostUpdate ==
  /\ \A c \in Clients : pc[c] = "idle"
  /\ res.op = "completeRoom" /\ res.success
  /\ <<res.testerId, res.roomNumber>> \in Completions(cookie)
  /\ \E pr \in res.lost :
       /\ pr[1] # res.testerId
       /\ pr \notin Completions(cookie)

\* C8 as stated: once the stored isActive of an analysis is true, no write of
\* an activate, startTesting or completeRoom call makes it false while the
\* analysis exists, whatever the interleaving.
C8_ActiveForever ==
  [][ \A c \in Clients :
        (WriteBy(c) /\ loc[c].op \in ProgressOps) =>
          \A id \in AnalysisIds :
            (IsActiveIn(cookie, id) /\ IsStored(cookie', id)) => IsActiveIn(cookie', id) ]_vars

\* C8 amended: the same, for the write of a call that had no write of another
\* call between its read of the analysis and its own write.
C8_ActiveKeptUnlessStale ==
  [][ \A c \in Clients :
        (WriteBy(c) /\ loc[c].op \in ProgressOps /\ ~loc[c].stale) =>
          \A id \in AnalysisIds :
            (IsActiveIn(cookie, id) /\ IsStored(cookie', id)) => IsActiveIn(cookie', id) ]_vars

C8_Witness ==
  /\ res.op \in {"startTesting", "completeRoom"}
  /\ res.success /\ ~res.stale
  /\ IsActiveIn(cookie, res.analysisId)

C10_ExpiryAgrees ==
  \A a \in Stored :
    (a.isActive /\ a.activatedAt # Undefined) =>
      IF now - a.activatedAt <= ExpiryHours
      THEN /\ ~PageGuardExpired(a, now)
           /\ GetAnalysisStatus(a, now) # "Expired"
           /\ ListAnalysisStatus(a, now) # "Expired"
           /\ FormatTimeRemaining(a.activatedAt, now) # "Expired"
           /\ ListTimeLeft(a.activatedAt, now) # "Expired"
      ELSE /\ PageGuardExpired(a, now)
           /\ GetAnalysisStatus(a, now) = "Expired"
           /\ ListAnalysisStatus(a, now) = "Expired"
           /\ FormatTimeRemaining(a.activatedAt, now) = "Expired"
           /\ ListTimeLeft(a.activatedAt, now) = "Expired"

(***************************************************************************)
(* The store called with whole records (SpecStore): saveAnalysis and       *)
(* updateAnalysis take the record their caller hands them                  *)
(***************************************************************************)
StoreIds == {"a1", "a2"}

\* a Progress record as a caller may put it into the record it hands over
GivenProgress ==
  [ testerId |-> "t1", completedRoomNumbers |-> <<1>>, currentRoomNumber |-> 2,
    startedAt |-> 1, lastUpdatedAt |-> 1 ]

\* a Progress record of somebody who is not a panelist of the analysis
StrayProgress ==
  [ testerId |-> "t2", completedRoomNumbers |-> <<>>, currentRoomNumber |-> 1,
    startedAt |-> 1, lastUpdatedAt |-> 1 ]

\* a record with every field of the current Analysis type
GivenAnalysis(analysisId, roomAssignments, panelMemberIds, isActive, activatedAt, testerProgress) ==
  [ analysisId      |-> analysisId,
    projectCode     |-> "p1",
    roomAssignments |-> roomAssignments,
    panelMemberIds  |-> panelMemberIds,
    createdAt       |-> 1,
    isActive        |-> isActive,
    activatedAt     |-> activatedAt,
    testerProgress  |-> testerProgress ]

\* what a caller hands to saveAnalysis: the record, and whether the record
\* has the fields isActive and testerProgress at all
Request(analysis, hasIsActive, hasTesterProgress) ==
  [ analysis |-> analysis, hasIsActive |-> hasIsActive,
    hasTesterProgress |-> hasTesterProgress ]

\* the record the coordinator's create dialog builds: neither isActive nor
\* testerProgress
DialogRequest(analysisId, roomAssignments, panelMemberIds) ==
  Request(GivenAnalysis(analysisId, roomAssignments, panelMemberIds, FALSE, Undefined, <<>>),
          FALSE, FALSE)

StoreRoomLists == { <<1, 2>>, <<2, 2>>, <<>>, <<1, 9>> }
StorePanelLists == { <<"t1">>, <<"t1", "t1">>, <<>> }

SaveRequests ==
  { DialogRequest("a1", <<1, 2>>, <<"t1">>) }
  \cup { Request(GivenAnalysis("a1", rl, pl, FALSE, Undefined, <<>>), TRUE, TRUE) :
           rl \in StoreRoomLists, pl \in StorePanelLists }
  \cup { Request(GivenAnalysis("a2", <<1>>, <<"t1">>, FALSE, Undefined, <<>>), TRUE, TRUE),
         Request(GivenAnalysis("a1", <<1, 2>>, <<"t1">>, FALSE, Undefined, <<>>), FALSE, TRUE),
         Request(GivenAnalysis("a1", <<1, 2>>, <<"t1">>, TRUE, Undefined, <<>>), TRUE, TRUE),
         Request(GivenAnalysis("a1", <<1, 2>>, <<"t1">>, TRUE, 1, <<GivenProgress>>), TRUE, TRUE),
         Request(GivenAnalysis("a1", <<1, 2>>, <<"t1">>, FALSE, Undefined, <<StrayProgress>>),
                 TRUE, TRUE) }

UpdateRecords ==
  { GivenAnalysis("a1", <<1, 2>>, <<"t1">>, FALSE, Undefined, <<>>),
    GivenAnalysis("a1", <<1, 9>>, <<"t1">>, FALSE, Undefined, <<>>),
    GivenAnalysis("a2", <<1>>, <<"t1">>, TRUE, 1, <<>>) }

\* saveAnalysis lines 122-178 on the caller's record: testerProgress.map
\* throws on a record without testerProgress (line 131, caught at 169-177),
\* and z.boolean() rejects a record without isActive (line 35)
SaveAnalysisRequest(value, req) ==
  IF ~req.hasTesterProgress
  THEN [success |-> FALSE, list |-> value]
  ELSE IF ~req.hasIsActive
  THEN [success |-> FALSE, list |-> value]
  ELSE SaveAnalysis(value, req.analysis)

StoreSave(req) ==
  LET r == SaveAnalysisRequest(cookie, req)
  IN  /\ cookie' = r.list
      /\ ret' = Ret("create", req.analysis.analysisId, "none", Undefined, r.success,
                    Undefined, FALSE)
      /\ UNCHANGED <<wf, hw, gw, now, visit, pc, loc, res>>

StoreUpdate(analysis) ==
  LET r == UpdateAnalysis(cookie, analysis)
  IN  /\ cookie' = r.list
      /\ ret' = Ret("update", analysis.analysisId, "none", Undefined, r.success,
                    Undefined, FALSE)
      /\ UNCHANGED <<wf, hw, gw, now, visit, pc, loc, res>>

StoreRoomArgs == {1, 9}

NextStore ==
  \/ \E req \in SaveRequests : StoreSave(req)
  \/ \E a \in UpdateRecords : StoreUpdate(a)
  \/ \E id \in StoreIds : Delete(id)
  \/ \E id \in StoreIds : Activate(id)
  \/ \E id \in StoreIds, t \in Testers, rnd \in RandomDraws : StartTesting(id, t, rnd)
  \/ \E id \in StoreIds, t \in Testers, r \in StoreRoomArgs, rnd \in RandomDraws :
        CompleteRoom(id, t, r, rnd)

SpecStore == Init /\ [][NextStore]_vars

\* the stored analysis with this id (there is one)
StoredAnalysis(value, analysisId) == value[FindIndex(value, analysisId)]

PanelOf(value, analysisId) ==
  IF IsStored(value, analysisId) THEN StoredAnalysis(value, analysisId).panelMemberIds
  ELSE <<>>

\* the panelists that have a Progress record in the stored analysis
StartedIn(value, analysisId) ==
  IF IsStored(value, analysisId)
  THEN { tp.testerId : tp \in ProgressOf(StoredAnalysis(value, analysisId)) }
  ELSE {}

(***************************************************************************)
(* Properties of the store (SpecStore)                                     *)
(***************************************************************************)

\* C11: every stored analysis has between 1 and 8 room assignments with
\* pairwise distinct room numbers within 1..8 and between 1 and 6 pairwise
\* distinct panelist ids (create rejects every other input).
C11_StructuralInvariants ==
  \A a \in Stored :
    /\ Len(a.roomAssignments) \in MinRooms..MaxRooms
    /\ NoDuplicates(a.roomAssignments)
    /\ Range(a.roomAssignments) \subseteq MinRoomNumber..MaxRoomNumber
    /\ Len(a.panelMemberIds) \in MinPanel..MaxPanel
    /\ NoDuplicates(a.panelMemberIds)

\* C12: immediately after a successful create the stored analysis is
\* inactive, has no activatedAt and has an empty testerProgress.
C12_CreatedInactive ==
  (ret.op = "create" /\ ret.success) =>
    /\ IsStored(cookie, ret.analysisId)
    /\ ~StoredAnalysis(cookie, ret.analysisId).isActive
    /\ StoredAnalysis(cookie, ret.analysisId).activatedAt = Undefined
    /\ StoredAnalysis(cookie, ret.analysisId).testerProgress = <<>>

\* C13: under sequential execution a create, update, delete, activate,
\* startTesting or completeRoom call that returns a failure leaves the
\* persisted list of analyses exactly as it was.
C13_FailureLeavesStore ==
  [][ ~ret'.success => cookie' = cookie ]_vars

C13_Witness ==
  /\ ret.op = "completeRoom" /\ ~ret.success /\ ret.roomNumber = 9
  /\ HasProgress(cookie, ret.analysisId, ret.testerId)
  /\ Len(cookie) = 2

\* C14: a startTesting call succeeds only for a stored analysis that has the
\* tester among its panelist ids; a completeRoom call succeeds only for a
\* stored analysis in which the tester has a Progress record; and no
\* completeRoom call, failed or not, adds a Progress record.
C14_FailsWithoutPrecondition ==
  [][ /\ (ret'.op = "startTesting" /\ ret'.success) =>
           /\ IsStored(cookie, ret'.analysisId)
           /\ Includes(PanelOf(cookie, ret'.analysisId), ret'.testerId)
      /\ (ret'.op = "completeRoom" /\ ret'.success) =>
           /\ IsStored(cookie, ret'.analysisId)
           /\ ret'.testerId \in StartedIn(cookie, ret'.analysisId)
      /\ ret'.op = "completeRoom" =>
           \A id \in StoreIds : StartedIn(cookie', id) \subseteq StartedIn(cookie, id) ]_vars

C14_Witness ==
  /\ ret.op = "completeRoom" /\ ~ret.success
  /\ IsStored(cookie, ret.analysisId)
  /\ ret.testerId \notin StartedIn(cookie, ret.analysisId)
  /\ StartedIn(cookie, ret.analysisId) # {}

(***************************************************************************)
(* The simulated room hardware behind the gateway (SpecHw).  Each method   *)
(* of MockRoomControlState is an operator on the state record m that gives *)
(* the new record and how the method ended: "returned" with data, "thrown" *)
(* with the message, or "pending" on the timer it armed.                   *)
(***************************************************************************)
MaxHwCalls == 5
\* roomId arguments of selectRoom
HwRoomArgs == {0, 1, 2, 9}

\* clearTimeout: a handle that is null, fired or cleared removes nothing
ClearTimeout(timers, handle) == { t \in timers : t.id # handle }

\* setTimeout
SetTimeout(timers, id, kind) ==
  timers \cup { [id |-> id, kind |-> kind, late |-> FALSE, old |-> FALSE] }

Ended(m, outcome, state, selected, error, timer) ==
  [ m |-> m, outcome |-> outcome, state |-> state, selected |-> selected,
    error |-> error, timer |-> timer ]

\* getStatus: a copy of the status record
GetStatus(m) == [ state |-> m.state, pressure |-> m.pressure, selected |-> m.selected ]

\* getError
GetError(m) == IF m.lastError # NoLastError THEN m.lastError ELSE "no error"

MockPressurize(m) ==
  IF m.state # "standby" /\ m.state # "ready"
  THEN Ended([m EXCEPT !.lastError = "Cannot pressurize from current state",
                       !.state = "error"],
             "returned", "error", NoSelection, "none", NoTimer)
  ELSE Ended([m EXCEPT !.state = "pressurizing",
                       !.pressure = 0,
                       !.timers = SetTimeout(ClearTimeout(@, m.pressurizeTimer),
                                             m.nextTimer, "pressurize"),
                       !.pressurizeTimer = m.nextTimer,
                       !.nextTimer = @ + 1],
             "pending", "none", NoSelection, "none", m.nextTimer)

\* the timer callback of pressurize that leaves the pressure as it is
PressurizeCallback_NoPressure(m) ==
  [m EXCEPT !.state = "ready"]

\* the timer callback of pressurize, lines 98-102
PressurizeCallback(m) ==
  [m EXCEPT !.state = "ready", !.pressure = TargetPressure]

\* selectRoom that keeps the room already selected
MockSelectRoom_KeepsSelection(m, roomId) ==
  IF roomId < MinRoomNumber \/ roomId > MaxRoomNumber
  THEN Ended([m EXCEPT !.lastError = "Invalid room ID", !.state = "error"],
             "thrown", "none", NoSelection, "Invalid room ID", NoTimer)
  ELSE IF m.state # "ready"
  THEN Ended([m EXCEPT !.lastError = "System must be in ready state to select room",
                       !.state = "error"],
             "thrown", "none", NoSelection,
             "System must be in ready state to select room", NoTimer)
  ELSE Ended([m EXCEPT !.selected = IF @ = NoSelection THEN roomId ELSE @],
             "returned", "none", roomId, "none", NoTimer)

MockSelectRoom(m, roomId) ==
  IF roomId < MinRoomNumber \/ roomId > MaxRoomNumber
  THEN Ended([m EXCEPT !.lastError = "Invalid room ID", !.state = "error"],
             "thrown", "none", NoSelection, "Invalid room ID", NoTimer)
  ELSE IF m.state # "ready"
  THEN Ended([m EXCEPT !.lastError = "System must be in ready state to select room",
                       !.state = "error"],
             "thrown", "none", NoSelection,
             "System must be in ready state to select room", NoTimer)
  ELSE Ended([m EXCEPT !.selected = roomId],
             "returned", "none", roomId, "none", NoTimer)

MockClearSelection(m) ==
  Ended([m EXCEPT !.selected = NoSelection],
        "returned", "none", NoSelection, "none", NoTimer)

\* openRoom that does not look at the selection
MockOpenRoom_NoSelectionCheck(m) ==
  IF m.state # "ready"
  THEN Ended([m EXCEPT !.lastError = "System must be in ready state to open room",
                       !.state = "error"],
             "thrown", "none", NoSelection,
             "System must be in ready state to open room", NoTimer)
  ELSE Ended([m EXCEPT !.state = "valve_opened",
                       !.timers = SetTimeout(ClearTimeout(@, m.openTimer),
                                             m.nextTimer, "open"),
                       !.openTimer = m.nextTimer,
                       !.nextTimer = @ + 1],
             "pending", "none", NoSelection, "none", m.nextTimer)

MockOpenRoom(m) ==
  IF m.selected = NoSelection
  THEN Ended([m EXCEPT !.lastError = "No room selected", !.state = "error"],
             "thrown", "none", NoSelection, "No room selected", NoTimer)
  ELSE IF m.state # "ready"
  THEN Ended([m EXCEPT !.lastError = "System must be in ready state to open room",
                       !.state = "error"],
             "thrown", "none", NoSelection,
             "System must be in ready state to open room", NoTimer)
  ELSE Ended([m EXCEPT !.state = "valve_opened",
                       !.timers = SetTimeout(ClearTimeout(@, m.openTimer),
                                             m.nextTimer, "open"),
                       !.openTimer = m.nextTimer,
                       !.nextTimer = @ + 1],
             "pending", "none", NoSelection, "none", m.nextTimer)

\* the timer callback of openRoom, lines 147-150
OpenCallback(m) ==
  [m EXCEPT !.state = "ready"]

\* standby that also forgets the last error
MockStandby_ClearsError(m) ==
  Ended([m EXCEPT !.timers = ClearTimeout(ClearTimeout(@, m.pressurizeTimer), m.openTimer),
                  !.pressurizeTimer = NoTimer,
                  !.openTimer = NoTimer,
                  !.state = "standby",
                  !.pressure = 0,
                  !.selected = NoSelection,
                  !.lastError = NoLastError],
        "returned", "standby", NoSelection, "none", NoTimer)

\* standby that forgets the valve timer
MockStandby_KeepsOpenTimer(m) ==
  Ended([m EXCEPT !.timers = ClearTimeout(@, m.pressurizeTimer),
                  !.pressurizeTimer = NoTimer,
                  !.state = "standby",
                  !.pressure = 0,
                  !.selected = NoSelection],
        "returned", "standby", NoSelection, "none", NoTimer)

MockStandby(m) ==
  Ended([m EXCEPT !.timers = ClearTimeout(ClearTimeout(@, m.pressurizeTimer), m.openTimer),
                  !.pressurizeTimer = NoTimer,
                  !.openTimer = NoTimer,
                  !.state = "standby",
                  !.pressure = 0,
                  !.selected = NoSelection],
        "returned", "standby", NoSelection, "none", NoTimer)

MockReset(m) ==
  Ended([m EXCEPT !.state = "standby",
                  !.pressure = 0,
                  !.selected = NoSelection,
                  !.lastError = NoLastError,
                  !.timers = ClearTimeout(ClearTimeout(@, m.pressurizeTimer), m.openTimer),
                  !.pressurizeTimer = NoTimer,
                  !.openTimer = NoTimer],
        "returned", "standby", NoSelection, "none", NoTimer)

\* the timers of the queue after a command, with what has happened to the
\* timers armed before it noted on them
Marked(timers, op) ==
  { [t EXCEPT !.late = @ \/ (op \in {"pressurize", "openRoom"} /\ t.id < hw.nextTimer),
              !.old = @ \/ (op = "standby" /\ t.id < hw.nextTimer)] : t \in timers }

Result(op, arg, success, state, pressure, selected, error, from, fromSelected, timer) ==
  [ op |-> op, success |-> success, state |-> state, pressure |-> pressure,
    selected |-> selected, error |-> error, arg |-> arg, from |-> from,
    fromSelected |-> fromSelected, timer |-> timer, polled |-> FALSE,
    seq |-> gw.result.seq + 1 ]

NotAlone(pending) == { [p EXCEPT !.alone = FALSE] : p \in pending }

\* the pressurize or openRoom call that armed timer id has not returned
Waiting(id) == \E p \in gw.pending : p.timer = id

\* a command through roomControlService: the try block hands back
\* { success: true, data } when the method returns, the catch block
\* { success: false, error } when it throws; while the method's promise is
\* pending the caller waits
Command(op, arg, e) ==
  /\ gw.calls < MaxHwCalls
  /\ hw' = [e.m EXCEPT !.timers = Marked(@, op)]
  /\ gw' = IF e.outcome = "pending"
           THEN [ calls |-> gw.calls + 1,
                  result |-> gw.result,
                  pending |-> NotAlone(gw.pending) \cup
                                { [ timer |-> e.timer, op |-> op, from |-> hw.state,
                                    fromSelected |-> hw.selected, alone |-> TRUE,
                                    polled |-> FALSE ] } ]
           ELSE [ calls |-> gw.calls + 1,
                  result |-> Result(op, arg, e.outcome = "returned", e.state, 0,
                                    e.selected, e.error, hw.state, hw.selected, NoTimer),
                  pending |-> NotAlone(gw.pending) ]
  /\ UNCHANGED <<wf, cookie, now, ret, visit, pc, loc, res>>

\* roomControlService.getStatus
GetStatusCall ==
  /\ gw.calls < MaxHwCalls
  /\ gw' = [gw EXCEPT !.calls = @ + 1,
                      !.result = Result("getStatus", 0, TRUE, GetStatus(hw).state,
                                        GetStatus(hw).pressure, GetStatus(hw).selected,
                                        "none", hw.state, hw.selected, NoTimer),
                      !.pending = { [p EXCEPT !.polled = @ \/ p.alone] : p \in @ }]
  /\ UNCHANGED <<wf, hw, cookie, now, ret, visit, pc, loc, res>>

\* roomControlService.getError
GetErrorCall ==
  /\ gw.calls < MaxHwCalls
  /\ gw' = [gw EXCEPT !.calls = @ + 1,
                      !.result = Result("getError", 0, TRUE, "none", 0, NoSelection,
                                        GetError(hw), hw.state, hw.selected, NoTimer)]
  /\ UNCHANGED <<wf, hw, cookie, now, ret, visit, pc, loc, res>>

Pressurize == Command("pressurize", 0, MockPressurize(hw))

SelectRoom(roomId) == Command("selectRoom", roomId, MockSelectRoom(hw, roomId))

ClearSelection == Command("clearSelection", 0, MockClearSelection(hw))

OpenRoom == Command("openRoom", 0, MockOpenRoom(hw))

Standby == Command("standby", 0, MockStandby(hw))

ResetMock == Command("resetMock", 0, MockReset(hw))

\* a timer expires: its callback runs and resolves the promise of the call
\* that armed it, and the gateway hands that caller { success: true, data }
TimerFires(t, m) ==
  /\ t \in hw.timers
  /\ hw' = [m EXCEPT !.timers = hw.timers \ {t}]
  /\ gw' = [gw EXCEPT
              !.result = LET p == CHOOSE q \in gw.pending : q.timer = t.id
                         IN  [Result(p.op, 0, TRUE, m.state, 0, NoSelection, "none",
                                     p.from, p.fromSelected, t.id)
                                EXCEPT !.polled = p.polled],
              !.pending = { q \in @ : q.timer # t.id }]
  /\ UNCHANGED <<wf, cookie, now, ret, visit, pc, loc, res>>

PressurizeTimer(t) == t.kind = "pressurize" /\ TimerFires(t, PressurizeCallback(hw))

OpenTimer(t) == t.kind = "open" /\ TimerFires(t, OpenCallback(hw))

NextHw ==
  \/ GetStatusCall
  \/ GetErrorCall
  \/ Pressurize
  \/ \E n \in HwRoomArgs : SelectRoom(n)
  \/ ClearSelection
  \/ OpenRoom
  \/ Standby
  \/ ResetMock
  \/ \E t \in hw.timers : PressurizeTimer(t)
  \/ \E t \in hw.timers : OpenTimer(t)

SpecHw == Init /\ [][NextHw]_vars

\* the runtime runs the callback of every timer that stays armed: a timer
\* fires unless clearTimeout has taken it out of the queue
SpecHwFair ==
  /\ SpecHw
  /\ WF_vars(\E t \in hw.timers : PressurizeTimer(t))
  /\ WF_vars(\E t \in hw.timers : OpenTimer(t))

(***************************************************************************)
(* The room visit workflow (SpecFlow): each panelist's testing page drives *)
(* the one device through the gateway, one gateway call per step.  Two     *)
(* panelists work on one analysis; their steps interleave freely.          *)
(***************************************************************************)
FlowId == "a1"
FlowRoomLists == { <<1, 2>> }
FlowPanelLists == { <<"t1", "t2">> }

\* while (retries < 10)
MaxRetries == 10

\* how many times "I am at Room N" is pressed, all panelists together
MaxRuns == 3

\* how many responses a panelist's responses cookie holds at most
MaxResponses == 3

\* a call of a server action that does not reach the device hands back
\* { success: false } and leaves the device alone
Outcome(fails, e) ==
  IF fails THEN "failed"
  ELSE IF e.outcome = "returned" THEN "ok"
  ELSE IF e.outcome = "thrown" THEN "failed"
  ELSE "pending"

\* the device and the gateway's waiting callers after a call of op (what
\* a waiting call saw when it was made is not kept here)
Served(op, fails, e) ==
  IF fails
  THEN UNCHANGED <<hw, gw>>
  ELSE /\ hw' = e.m
       /\ gw' = [gw EXCEPT !.pending =
                   IF e.outcome = "pending"
                   THEN @ \cup { [ timer |-> e.timer, op |-> op, from |-> "none",
                                   fromSelected |-> NoSelection, alone |-> FALSE,
                                   polled |-> FALSE ] }
                   ELSE @]

\* getRoomStatus changes nothing
StatusServed(fails) == UNCHANGED <<hw, gw>>

\* a timer expires in the course of the workflows: its callback runs and
\* the call that armed it returns
FlowTimer(t, m) ==
  /\ t \in hw.timers
  /\ hw' = [m EXCEPT !.timers = hw.timers \ {t}]
  /\ gw' = [gw EXCEPT !.pending = { q \in @ : q.timer # t.id }]
  /\ UNCHANGED <<cookie, now, ret, visit, pc, loc, res, wf>>

FlowPressurizeTimer(t) == t.kind = "pressurize" /\ FlowTimer(t, PressurizeCallback(hw))

FlowOpenTimer(t) == t.kind = "open" /\ FlowTimer(t, OpenCallback(hw))

\* the coordinator creates the analysis, activates it and may delete it,
\* once each
FlowCreate(roomAssignments, panelMemberIds) ==
  LET r == SaveAnalysis(cookie, NewAnalysis(FlowId, roomAssignments, panelMemberIds, now))
  IN  /\ pc["c1"] = "idle"
      /\ cookie' = r.list
      /\ pc' = [pc EXCEPT !["c1"] = "created"]
      /\ UNCHANGED <<now, ret, visit, loc, res, hw, gw, wf>>

FlowActivate ==
  LET result == GetAnalysisById(cookie, FlowId)
      r == UpdateAnalysis(cookie, ActivateAnalysisPrep(result.data, now))
  IN  /\ pc["c1"] = "created"
      /\ cookie' = IF result.success THEN r.list ELSE cookie
      /\ pc' = [pc EXCEPT !["c1"] = "activated"]
      /\ UNCHANGED <<now, ret, visit, loc, res, hw, gw, wf>>

FlowDelete ==
  LET r == DeleteList(GetAnalyses(cookie), FlowId)
  IN  /\ pc["c1"] = "activated"
      /\ cookie' = r.list
      /\ pc' = [pc EXCEPT !["c1"] = "deleted"]
      /\ UNCHANGED <<now, ret, visit, loc, res, hw, gw, wf>>

\* a catch block that shows the rating form all the same
Abort_ShowsForm(w) == [w EXCEPT !.step = "rating", !.atRoom = TRUE, !.error = TRUE]

\* the catch block of handleConfirmLocation: the error is shown and the
\* panelist stays on the confirmation screen
Abort(w) == [w EXCEPT !.step = "confirm", !.error = TRUE]

\* handleConfirmLocation after its first getRoomStatus that pressurizes
\* whatever the state is
AfterStatus_AlwaysPressurize(ok, state) ==
  IF ~ok THEN "abort"
  ELSE "pressurize"

\* handleConfirmLocation after its first getRoomStatus, lines 641-648
AfterStatus(ok, state) ==
  IF ~ok THEN "abort"
  ELSE IF state = "standby" THEN "pressurize"
  ELSE "select"

\* a polling loop that gives up when no poll reported ready
AfterPoll_GivesUp(retries, ok, state) ==
  IF ok /\ state = "ready"
  THEN [ step |-> "select", retries |-> retries ]
  ELSE IF retries + 1 < MaxRetries
  THEN [ step |-> "poll", retries |-> retries + 1 ]
  ELSE [ step |-> "abort", retries |-> retries + 1 ]

\* one round of the polling loop, lines 657-667: break on ready, else
\* retries++ and test retries < 10 again
AfterPoll(retries, ok, state) ==
  IF ok /\ state = "ready"
  THEN [ step |-> "select", retries |-> retries ]
  ELSE IF retries + 1 < MaxRetries
  THEN [ step |-> "poll", retries |-> retries + 1 ]
  ELSE [ step |-> "select", retries |-> retries + 1 ]

\* handleSubmit after completeRoom, lines 728-757
AfterComplete(success) ==
  IF success THEN "close" ELSE "rating"

\* handleSubmit that keeps the panelist at the room when standby failed
AfterClose_NeedsStandby(isComplete, closeOk) ==
  IF ~closeOk THEN "rating"
  ELSE IF isComplete THEN "finished"
  ELSE "loading"

\* handleSubmit after closeRoomSession, lines 731-753
AfterClose(isComplete, closeOk) ==
  IF isComplete THEN "finished" ELSE "loading"

\* the runs of handleConfirmLocation started so far
Runs ==
  LET sum[S \in SUBSET Testers] ==
        IF S = {} THEN 0
        ELSE LET p == CHOOSE q \in S : TRUE
             IN  wf[p].runs + sum[S \ {p}]
  IN  sum[Testers]

\* the others' workflows when p's workflow changes
Others(p, w, selected) ==
  [ q \in Testers |->
      IF q = p THEN w
      ELSE IF selected /\ wf[q].step = "open" THEN [wf[q] EXCEPT !.raced = TRUE]
      ELSE wf[q] ]

\* the tester page, part_006 lines 22-49: it renders the testing interface
\* for a panelist of an active analysis within its window
WfLoadPage(p) ==
  LET result == GetAnalysisById(cookie, FlowId)
  IN  /\ wf[p].step = "away"
      /\ result.success
      /\ Includes(result.data.panelMemberIds, p)
      /\ result.data.isActive
      /\ ~PageGuardExpired(result.data, now)
      /\ wf' = [wf EXCEPT ![p].step = "loading"]
      /\ UNCHANGED <<cookie, now, ret, visit, pc, loc, res, hw, gw>>

\* initializeTesting: startTesting, then the room it returned is on screen
WfInitialize(p, rnd) ==
  LET r == StartTestingCall(cookie, FlowId, p, rnd, now)
  IN  /\ wf[p].step = "loading"
      /\ cookie' = r.list
      /\ wf' = [wf EXCEPT ![p] =
                  IF r.success /\ r.room # Undefined
                  THEN [@ EXCEPT !.step = "confirm", !.room = r.room, !.atRoom = FALSE,
                                 !.error = FALSE, !.last = NoCall, !.retries = 0,
                                 !.failedPoll = FALSE, !.openedFor = NoSelection,
                                 !.raced = FALSE, !.submit = NoSubmit]
                  ELSE [@ EXCEPT !.step = "failed", !.room = r.room, !.atRoom = FALSE,
                                 !.error = TRUE, !.last = NoCall, !.retries = 0,
                                 !.failedPoll = FALSE, !.openedFor = NoSelection,
                                 !.raced = FALSE, !.submit = NoSubmit]]
      /\ UNCHANGED <<now, ret, visit, pc, loc, res, hw, gw>>

\* handleConfirmLocation up to the result of its first getRoomStatus
WfConfirm(p, fails) ==
  LET state == IF fails THEN "none" ELSE GetStatus(hw).state
      next == AfterStatus(~fails, state)
      entry == Entry("getStatus", 0, IF fails THEN "failed" ELSE "ok", state)
      w == [wf[p] EXCEPT !.last = entry, !.runs = @ + 1, !.error = FALSE,
                         !.retries = 0, !.openedFor = NoSelection, !.raced = FALSE,
                         !.failedPoll = FALSE]
  IN  /\ wf[p].step = "confirm"
      /\ Runs < MaxRuns
      /\ StatusServed(fails)
      /\ wf' = [wf EXCEPT ![p] = IF next = "abort" THEN Abort(w)
                                 ELSE [w EXCEPT !.step = next]]
      /\ UNCHANGED <<cookie, now, ret, visit, pc, loc, res>>

\* pressurizeSystem
WfPressurize(p, fails) ==
  LET e == MockPressurize(hw)
      outcome == Outcome(fails, e)
      w == [wf[p] EXCEPT !.last = Entry("pressurize", 0, outcome,
                                        IF fails THEN "none" ELSE e.state)]
  IN  /\ wf[p].step = "pressurize"
      /\ Served("pressurize", fails, e)
      /\ wf' = [wf EXCEPT ![p] =
                  IF outcome = "failed" THEN Abort(w)
                  ELSE IF outcome = "pending"
                  THEN [w EXCEPT !.step = "awaitPressurize", !.await = e.timer]
                  ELSE [w EXCEPT !.step = "poll", !.retries = 0]]
      /\ UNCHANGED <<cookie, now, ret, visit, pc, loc, res>>

\* the call the workflow waits for has returned { success: true }
WfResume(p) ==
  LET w == [wf[p] EXCEPT !.last.outcome = "ok", !.last.state = "ready",
                         !.await = NoTimer]
  IN  /\ wf[p].step \in {"awaitPressurize", "awaitOpen"}
      /\ ~Waiting(wf[p].await)
      /\ wf' = [wf EXCEPT ![p] =
                  IF wf[p].step = "awaitPressurize"
                  THEN [w EXCEPT !.step = "poll", !.retries = 0]
                  ELSE [w EXCEPT !.step = "rating", !.atRoom = TRUE]]
      /\ UNCHANGED <<cookie, now, ret, visit, pc, loc, res, hw, gw>>

\* one round of the polling loop
WfPoll(p, fails) ==
  LET state == IF fails THEN "none" ELSE GetStatus(hw).state
      next == AfterPoll(wf[p].retries, ~fails, state)
      entry == Entry("getStatus", 0, "polled",
                     IF ~fails /\ state = "ready" THEN "ready" ELSE "other")
      w == [wf[p] EXCEPT !.last = entry, !.retries = next.retries,
                         !.failedPoll = @ \/ fails]
  IN  /\ wf[p].step = "poll"
      /\ StatusServed(fails)
      /\ wf' = [wf EXCEPT ![p] = IF next.step = "abort" THEN Abort(w)
                                 ELSE [w EXCEPT !.step = next.step]]
      /\ UNCHANGED <<cookie, now, ret, visit, pc, loc, res>>

\* selectRoomAction(currentRoomNumber)
WfSelect(p, fails) ==
  LET e == MockSelectRoom(hw, wf[p].room)
      outcome == Outcome(fails, e)
      w == [wf[p] EXCEPT !.last = Entry("selectRoom", wf[p].room, outcome, "none"),
                         !.retries = 0, !.failedPoll = FALSE]
  IN  /\ wf[p].step = "select"
      /\ Served("selectRoom", fails, e)
      /\ wf' = Others(p, IF outcome = "ok" THEN [w EXCEPT !.step = "open", !.raced = FALSE]
                         ELSE Abort(w),
                      outcome = "ok")
      /\ UNCHANGED <<cookie, now, ret, visit, pc, loc, res>>

\* openRoomAction
WfOpen(p, fails) ==
  LET e == MockOpenRoom(hw)
      outcome == Outcome(fails, e)
      w == [wf[p] EXCEPT !.last = Entry("openRoom", 0, outcome, "none")]
  IN  /\ wf[p].step = "open"
      /\ Served("openRoom", fails, e)
      /\ wf' = [wf EXCEPT ![p] =
                  IF outcome = "pending"
                  THEN [w EXCEPT !.step = "awaitOpen", !.await = e.timer,
                                 !.openedFor = hw.selected]
                  ELSE Abort(w)]
      /\ UNCHANGED <<cookie, now, ret, visit, pc, loc, res>>

\* handleSubmit lines 719-722: the response is appended to the list of the
\* responses cookie before completeRoom is called
SaveResponse(responses, room) ==
  Append(responses, room)

\* handleSubmit up to the result of completeRoom
WfSubmit(p, rnd) ==
  LET r == CompleteRoomCall(cookie, FlowId, p, wf[p].room, rnd, now)
  IN  /\ wf[p].step = "rating"
      /\ Len(wf[p].responses) < MaxResponses
      /\ cookie' = r.list
      /\ wf' = [wf EXCEPT ![p].step = AfterComplete(r.success),
                          ![p].responses = SaveResponse(@, wf[p].room),
                          ![p].submit = [ called |-> TRUE, success |-> r.success,
                                          isComplete |-> r.isComplete,
                                          closeCalled |-> FALSE, closeOk |-> FALSE ]]
      /\ UNCHANGED <<now, ret, visit, pc, loc, res, hw, gw>>

\* closeRoomSession and the rest of handleSubmit
WfClose(p, fails) ==
  LET e == MockStandby(hw)
      closeOk == Outcome(fails, e) = "ok"
  IN  /\ wf[p].step = "close"
      /\ Served("standby", fails, e)
      /\ wf' = [wf EXCEPT ![p].step = AfterClose(wf[p].submit.isComplete, closeOk),
                          ![p].submit.closeCalled = TRUE,
                          ![p].submit.closeOk = closeOk,
                          ![p].atRoom = AfterClose(wf[p].submit.isComplete, closeOk) = "rating"]
      /\ UNCHANGED <<cookie, now, ret, visit, pc, loc, res>>

NextFlow ==
  \/ \E rl \in FlowRoomLists, pl \in FlowPanelLists : FlowCreate(rl, pl)
  \/ FlowActivate
  \/ FlowDelete
  \/ \E p \in Testers : WfLoadPage(p)
  \/ \E p \in Testers, rnd \in RandomDraws : WfInitialize(p, rnd)
  \/ \E p \in Testers, fails \in BOOLEAN : WfConfirm(p, fails)
  \/ \E p \in Testers, fails \in BOOLEAN : WfPressurize(p, fails)
  \/ \E p \in Testers : WfResume(p)
  \/ \E p \in Testers, fails \in BOOLEAN : WfPoll(p, fails)
  \/ \E p \in Testers, fails \in BOOLEAN : WfSelect(p, fails)
  \/ \E p \in Testers, fails \in BOOLEAN : WfOpen(p, fails)
  \/ \E p \in Testers, rnd \in RandomDraws : WfSubmit(p, rnd)
  \/ \E p \in Testers, fails \in BOOLEAN : WfClose(p, fails)
  \/ \E t \in hw.timers : FlowPressurizeTimer(t)
  \/ \E t \in hw.timers : FlowOpenTimer(t)

SpecFlow == Init /\ [][NextFlow]_vars

\* the step hands a result to a caller
Returned == gw'.result.seq # gw.result.seq

\* the step in which timer t expires
Fires(t) == t \in hw.timers /\ gw'.result.timer = t.id /\ Returned

HwTypeOK ==
  /\ hw.state \in RoomStates
  /\ hw.selected \in {NoSelection} \cup (MinRoomNumber..MaxRoomNumber)
  /\ hw.pressure \in {0, TargetPressure}
  /\ Cardinality(hw.timers) <= 1
  /\ \A t \in hw.timers : \E p \in gw.pending : p.timer = t.id

(***************************************************************************)
(* Properties of the simulated room hardware (SpecHw)                      *)
(***************************************************************************)

\* C15: openRoom called while no room is selected is handed back as a failure
\* and leaves phase = error; a standby call made after that is handed back as
\* a success and leaves phase = standby.
C15_OpenWithoutSelection ==
  [][ Returned =>
        /\ (gw'.result.op = "openRoom" /\ gw'.result.fromSelected = NoSelection) =>
              /\ ~gw'.result.success
              /\ hw'.state = "error"
        /\ (/\ gw'.result.op = "standby"
            /\ gw.result.op = "openRoom" /\ gw.result.fromSelected = NoSelection) =>
              /\ gw'.result.success
              /\ hw'.state = "standby" ]_vars

C15_Witness ==
  /\ gw.result.op = "standby" /\ gw.result.success
  /\ gw.result.from = "error"
  /\ hw.lastError = "No room selected"
  /\ hw.state = "standby"

Violation(r) ==
  \/ r.op = "pressurize" /\ r.from \notin {"standby", "ready"}
  \/ r.op = "selectRoom" /\ (r.arg \notin MinRoomNumber..MaxRoomNumber \/ r.from # "ready")
  \/ r.op = "openRoom" /\ (r.fromSelected = NoSelection \/ r.from # "ready")

\* C17: every call that violates its precondition (pressurize from a phase
\* other than standby or ready, selectRoom with n outside 1..8 or from a phase
\* other than ready, openRoom with no room selected or from a phase other
\* than ready) is handed back as a failure with a reason, sets phase = error
\* and records the reason as the last error.
C17_ViolationIsFailure ==
  [][ (Returned /\ Violation(gw'.result)) =>
        /\ ~gw'.result.success
        /\ gw'.result.error # "none"
        /\ hw'.state = "error"
        /\ hw'.lastError = gw'.result.error
        /\ GetError(hw') = gw'.result.error ]_vars

\* C18: a timer that a standby call has left behind changes neither phase,
\* pressure nor selection when it expires; and a timer armed before a later
\* pressurize or openRoom call (accepted or rejected) does not change the
\* phase when it expires.
C18_NoStaleTimer ==
  [][ \A t \in hw.timers : Fires(t) =>
        /\ t.old => /\ hw'.state = hw.state
                    /\ hw'.pressure = hw.pressure
                    /\ hw'.selected = hw.selected
        /\ t.late => hw'.state = hw.state ]_vars

\* C19: once phase = error the phase stays error until a standby or reset
\* call: no other operation and no timer expiry leaves error.
C19_ErrorUntilStandby ==
  [][ (hw.state = "error" /\ hw'.state # "error") =>
        /\ Returned
        /\ gw'.result.op \in {"standby", "resetMock"}
        /\ gw'.result.timer = NoTimer ]_vars

C26_CompleteMeansAllRooms ==
  /\ \A a \in Stored : \A tp \in ProgressOf(a) :
       IsComplete(tp.completedRoomNumbers, Len(a.roomAssignments)) =>
         Range(a.roomAssignments) \subseteq Range(tp.completedRoomNumbers)
  /\ (ret.op = "completeRoom" /\ ret.success /\ ret.isComplete) =>
       \A a \in Stored : a.analysisId = ret.analysisId =>
         Range(a.roomAssignments) \subseteq
           Range(CompletedOf(cookie, ret.analysisId, ret.testerId))

\* C27: every successful startTesting returns an assignedRoomNumber that is a
\* room number of the analysis, also for a panelist who has completed all
\* rooms.
C27_AssignedRoomIsRoom ==
  (ret.op = "startTesting" /\ ret.success) =>
    \A a \in Stored : a.analysisId = ret.analysisId =>
      ret.room \in Range(a.roomAssignments)

\* C28: a successful startTesting that directly follows a completeRoom of the
\* same panelist on the same analysis which returned isComplete = false
\* returns that completeRoom's nextRoomNumber.
C28_StartReturnsNext ==
  [][ ( /\ ret.op = "completeRoom" /\ ret.success /\ ~ret.isComplete
        /\ ret'.op = "startTesting" /\ ret'.success
        /\ ret'.analysisId = ret.analysisId /\ ret'.testerId = ret.testerId )
      => ret'.room = ret.room ]_vars

\* the fields no progress operation may touch
SameIdentity(a, b) ==
  /\ a.analysisId = b.analysisId
  /\ a.projectCode = b.projectCode
  /\ a.roomAssignments = b.roomAssignments
  /\ a.panelMemberIds = b.panelMemberIds
  /\ a.createdAt = b.createdAt

\* the Progress records of the panelists other than testerId, in order
OthersProgress(a, testerId) ==
  SelectSeq(a.testerProgress, LAMBDA tp : tp.testerId # testerId)

\* C30: under sequential execution activate, startTesting and completeRoom
\* leave analysisId, the project reference, roomAssignments, panelMemberIds
\* and createdAt of every stored analysis unchanged, and startTesting and
\* completeRoom for a panelist leave isActive, activatedAt and every other
\* panelist's Progress record unchanged.
C30_Frame ==
  [][ ret'.op \in {"activate", "startTesting", "completeRoom"} =>
        /\ Len(cookie') = Len(cookie)
        /\ \A i \in 1..Len(cookie) :
             /\ SameIdentity(cookie[i], cookie'[i])
             /\ ret'.op \in {"startTesting", "completeRoom"} =>
                  /\ cookie'[i].isActive = cookie[i].isActive
                  /\ cookie'[i].activatedAt = cookie[i].activatedAt
                  /\ OthersProgress(cookie'[i], ret'.testerId) =
                       OthersProgress(cookie[i], ret'.testerId) ]_vars

\* a completeRoom of t2 has succeeded on an activated analysis in which t1
\* has a Progress record with a completed room
C30_Witness ==
  /\ ret.op = "completeRoom" /\ ret.success /\ ret.testerId = "t2"
  /\ IsActiveIn(cookie, ret.analysisId)
  /\ Len(CompletedOf(cookie, ret.analysisId, "t1")) > 0

(***************************************************************************)
(* Properties of the interleaved store over two analyses (SpecCross)       *)
(***************************************************************************)
\* the stored records with this id
RecordsOf(value, analysisId) ==
  { value[i] : i \in { j \in 1..Len(value) : value[j].analysisId = analysisId } }

\* C29: the write of an activate, startTesting or completeRoom call (each
\* through updateAnalysis) on one analysis leaves every other analysis as it
\* was stored just before the write: not changed, not removed, not restored;
\* whatever the interleaving with create, delete and progress calls on other
\* ids.
C29_OthersUntouched ==
  [][ \A c \in Clients :
        (WriteBy(c) /\ loc[c].op \in ProgressOps) =>
          \A id \in CrossIds \ {loc[c].analysisId} :
            RecordsOf(cookie', id) = RecordsOf(cookie, id) ]_vars

(***************************************************************************)
(* Termination of gateway calls (SpecHwFair)                               *)
(***************************************************************************)
\* C21: every pressurize and openRoom call made through the gateway
\* eventually returns a result to its caller, whatever other gateway calls
\* (standby included) are interleaved with it, given that every timer fires
\* unless it is cancelled.
C21_EveryCallReturns ==
  \A id \in 1..MaxHwCalls : [](Waiting(id) => <>(~Waiting(id)))

(***************************************************************************)
(* Properties of the room visit workflow (SpecFlow)                        *)
(***************************************************************************)
\* the steps of handleConfirmLocation at which the next thing it does is a
\* gateway call
CallSteps == {"confirm", "pressurize", "poll", "select", "open"}

\* the step in which the workflow of panelist p makes a gateway call of
\* handleConfirmLocation
CallBy(p) ==
  /\ wf[p].step \in CallSteps
  /\ <<wf'[p].step, wf'[p].last, wf'[p].retries, wf'[p].runs>> #
       <<wf[p].step, wf[p].last, wf[p].retries, wf[p].runs>>

\* the first getRoomStatus of a run, and a getRoomStatus of the polling loop
IsFirst(c) == c.op = "getStatus" /\ c.outcome # "polled"

IsPoll(c) == c.op = "getStatus" /\ c.outcome = "polled"

\* C22: a panelist's workflow ends at the rating form with the valve opened
\* for another room than the panelist's only when another workflow's
\* selectRoom succeeded between this workflow's selectRoom and its openRoom;
\* and (witness) with two workflows interleaved call by call such a state is
\* reachable: the rating form is shown for room N although the room selected
\* when the valve opened was the other panelist's room.
C22_MismatchOnlyWhenRaced ==
  \A p \in Testers :
    (wf[p].atRoom /\ wf[p].openedFor # wf[p].room) => wf[p].raced

C22_OpenedForOther ==
  \E p, q \in Testers :
    /\ p # q
    /\ wf[p].step = "rating" /\ wf[p].atRoom
    /\ wf[p].last = Entry("openRoom", 0, "ok", "ready")
    /\ wf[p].openedFor # wf[p].room
    /\ wf[p].openedFor = wf[q].room
    /\ wf[q].last.op = "selectRoom" /\ wf[q].last.outcome = "ok"

\* C23: in a run of the workflow for room N the gateway calls come in the
\* order getStatus; pressurize and then status polls, only when that first
\* status was standby; selectRoom(N); openRoom.  After a getStatus,
\* pressurize, selectRoom or openRoom that failed the run makes no further
\* call, the error is shown and the panelist stays on the confirmation
\* screen; the rating form is shown only after openRoom succeeded.
C23_CallOrder ==
  [][ \A p \in Testers :
        LET c == wf[p].last
            d == wf'[p].last
            sameRun == wf'[p].runs = wf[p].runs
        IN  /\ CallBy(p) =>
                 /\ IsFirst(d) <=> ~sameRun
                 /\ (sameRun /\ ~IsPoll(c)) => c.outcome = "ok"
                 /\ d.op \in {"getStatus", "pressurize", "selectRoom", "openRoom"}
                 /\ d.op = "pressurize" =>
                      IsFirst(c) /\ c.state = "standby"
                 /\ IsPoll(d) => (c.op = "pressurize" \/ IsPoll(c))
                 /\ d.op = "selectRoom" =>
                      /\ d.arg = wf[p].room
                      /\ (IsFirst(c) /\ c.state # "standby") \/ IsPoll(c)
                 /\ d.op = "openRoom" => c.op = "selectRoom"
            /\ d.outcome = "failed" =>
                 /\ wf'[p].error
                 /\ wf'[p].step = "confirm"
                 /\ ~wf'[p].atRoom
            /\ wf'[p].atRoom => (d.op = "openRoom" /\ d.outcome = "ok")
            /\ (wf[p].atRoom # wf'[p].atRoom /\ wf'[p].atRoom) =>
                 (c.op = "openRoom" /\ c.outcome = "pending") ]_vars

\* one panelist is at the rating form after openRoom succeeded while the
\* other's run was aborted by a failed selectRoom
C23_Witness ==
  \E p, q \in Testers :
    /\ wf[p].atRoom /\ wf[p].last = Entry("openRoom", 0, "ok", "ready")
    /\ wf[q].last.op = "selectRoom" /\ wf[q].last.outcome = "failed"
    /\ wf[q].error /\ wf[q].step = "confirm"

\* C24: the polling loop makes at most 10 getStatus calls and makes none
\* after one that reported ready; when 10 polls have come back without
\* ready (failed polls included) the workflow does not abort but goes on to
\* selectRoom.
C24_PollBound ==
  [][ \A p \in Testers :
        LET c == wf[p].last
            d == wf'[p].last
        IN  (CallBy(p) /\ IsPoll(d)) =>
              /\ ~(IsPoll(c) /\ c.state = "ready")
              /\ wf[p].retries < MaxRetries
              /\ wf'[p].retries = wf[p].retries + (IF d.state = "ready" THEN 0 ELSE 1)
              /\ ~wf'[p].error
              /\ wf'[p].step = IF d.state = "ready" \/ wf'[p].retries = MaxRetries
                               THEN "select" ELSE "poll" ]_vars

\* ten polls have come back without ready, one of them failed, and the
\* workflow is about to call selectRoom
C24_Witness ==
  \E p \in Testers :
    /\ wf[p].step = "select" /\ ~wf[p].error
    /\ wf[p].retries = MaxRetries
    /\ wf[p].failedPoll
    /\ IsPoll(wf[p].last) /\ wf[p].last.state = "other"

\* C25: on rating submission the workflow calls standby (closeRoomSession)
\* exactly when completeRoom returned success, and after it; whether standby
\* succeeds or fails the panelist goes on to the next room, or to the
\* finished state when completeRoom reported isComplete.
C25_CloseAfterComplete ==
  \A p \in Testers :
    LET sb == wf[p].submit
    IN  /\ sb.closeCalled => (sb.called /\ sb.success)
        /\ (sb.called /\ sb.success /\ ~sb.closeCalled) => wf[p].step = "close"
        /\ (sb.called /\ ~sb.success) => (wf[p].step = "rating" /\ ~sb.closeCalled)
        /\ wf[p].step = "close" => (sb.called /\ sb.success /\ ~sb.closeCalled)
        /\ sb.closeCalled =>
             /\ wf[p].step = IF sb.isComplete THEN "finished" ELSE "loading"
             /\ ~wf[p].atRoom

\* standby failed after a successful completeRoom and the panelist is on the
\* way to the next room
C25_Witness ==
  \E p \in Testers :
    /\ wf[p].submit.closeCalled /\ ~wf[p].submit.closeOk
    /\ wf[p].submit.success /\ ~wf[p].submit.isComplete
    /\ wf[p].step = "loading"

\* C35: in every reachable state of the simulated hardware with
\* phase = valve_opened a room in 1..8 is selected.
C35_ValveOnlyForSelected ==
  hw.state = "valve_opened" =>
    (hw.selected >= MinRoomNumber /\ hw.selected <= MaxRoomNumber)

\* C35, amended: the phase becomes valve_opened only while a room in 1..8 is
\* selected, and while the phase stays valve_opened the selection changes
\* only by a clearSelection call, which leaves no room selected.
C35_ValveOpensForSelected ==
  [][ /\ (hw.state # "valve_opened" /\ hw'.state = "valve_opened") =>
            /\ hw.selected \in MinRoomNumber..MaxRoomNumber
            /\ hw'.selected = hw.selected
      /\ (hw.state = "valve_opened" /\ hw'.state = "valve_opened"
            /\ hw'.selected # hw.selected) =>
            /\ Returned
            /\ gw'.result.op = "clearSelection"
            /\ hw'.selected = NoSelection ]_vars

C35_Witness ==
  /\ hw.state = "valve_opened"
  /\ hw.selected = NoSelection
  /\ gw.result.op = "clearSelection"
  /\ gw.result.from = "valve_opened"
  /\ gw.result.fromSelected \in MinRoomNumber..MaxRoomNumber

\* the reason the simulated hardware records for a call that violated its
\* precondition
Reason(r) ==
  IF r.op = "pressurize" THEN "Cannot pressurize from current state"
  ELSE IF r.op = "selectRoom"
  THEN IF r.arg \notin MinRoomNumber..MaxRoomNumber
       THEN "Invalid room ID"
       ELSE "System must be in ready state to select room"
  ELSE IF r.fromSelected = NoSelection
       THEN "No room selected"
       ELSE "System must be in ready state to open room"

\* C37: getError answers "no error" from construction or reset until a call
\* violates its precondition; from then on it answers the reason of the most
\* recent violation, and neither standby nor any other accepted call nor a
\* timer changes the answer; only reset brings "no error" back.
C37_LastErrorSticks ==
  /\ GetError(hw) = "no error"
  /\ [][ LET violated == Returned /\ gw'.result.timer = NoTimer /\ Violation(gw'.result)
             reset    == Returned /\ gw'.result.op = "resetMock"
         IN  /\ hw.lastError = NoLastError <=> GetError(hw) = "no error"
             /\ violated => GetError(hw') = Reason(gw'.result)
             /\ reset => GetError(hw') = "no error"
             /\ ~violated /\ ~reset => GetError(hw') = GetError(hw) ]_vars

C37_Witness ==
  /\ gw.result.op = "standby" /\ gw.result.success
  /\ gw.result.from = "error"
  /\ hw.state = "standby"
  /\ GetError(hw) = "System must be in ready state to select room"

\* the analysis accepts testing at time t: activated, and not more than 12
\* hours ago (the condition of the panelist's page, part_006 lines 31-48)
OpenForTesting(analysis, t) ==
  /\ analysis.isActive
  /\ ~PageGuardExpired(analysis, t)

\* C31: a startTesting or completeRoom call succeeds, and with it creates or
\* changes the panelist's Progress, only on an analysis that is active and
\* not expired when the call is made.
C31_OnlyWhileActive ==
  [][ (ret' # ret /\ ret'.op \in {"startTesting", "completeRoom"} /\ ret'.success) =>
        LET result == GetAnalysisById(cookie, ret'.analysisId)
        IN  result.success /\ OpenForTesting(result.data, now) ]_vars

\* C36: every stored analysis has at most one Progress record per panelist
\* id, and the testerId of each of its Progress records is one of its
\* panelMemberIds.
C36_ProgressPerPanelist ==
  \A a \in Stored :
    /\ \A i, j \in 1..Len(a.testerProgress) :
          a.testerProgress[i].testerId = a.testerProgress[j].testerId => i = j
    /\ \A tp \in ProgressOf(a) : Includes(a.panelMemberIds, tp.testerId)

\* C32: the responses stored for a panelist hold at most one response per
\* room, and while the analysis is stored they are the responses for exactly
\* the rooms of the panelist's completedRoomNumbers.
C32_OneResponsePerRoom ==
  \A p \in Testers :
    /\ NoDuplicates(wf[p].responses)
    /\ IsStored(cookie, FlowId) =>
         /\ Len(wf[p].responses) = Len(CompletedOf(cookie, FlowId, p))
         /\ Range(wf[p].responses) = Range(CompletedOf(cookie, FlowId, p))

\* the latest call of the panelist's run is an openRoom call that the device
\* accepted and that has returned success
OpenReturned(w) ==
  /\ w.last.op = "openRoom"
  /\ w.last.outcome = "ok"
  /\ w.openedFor # NoSelection

\* C33: handleSubmit, and with it completeRoom for the room on screen, runs
\* only on the rating form of a visit whose openRoom call has returned
\* success; the rating form appears only when such a call returns; and after
\* a completion that is not the last one the panelist is off the rating form
\* and the next room is loaded, so that the next submission needs a new run
\* of handleConfirmLocation.
C33_CompleteAfterOpen ==
  [][ \A p \in Testers :
        /\ wf'[p].responses # wf[p].responses =>
             /\ wf[p].step = "rating"
             /\ wf[p].atRoom
             /\ OpenReturned(wf[p])
             /\ wf'[p].responses = Append(wf[p].responses, wf[p].room)
        /\ (wf'[p].atRoom /\ ~wf[p].atRoom) =>
             /\ wf[p].step = "awaitOpen"
             /\ OpenReturned(wf'[p])
             /\ wf'[p].room = wf[p].room
        /\ wf'[p].room # wf[p].room => ~wf'[p].atRoom /\ ~OpenReturned(wf'[p])
        /\ (wf[p].step = "close" /\ wf'[p].step # "close" /\ ~wf[p].submit.isComplete) =>
             /\ wf'[p].step = "loading"
             /\ ~wf'[p].atRoom ]_vars

C33_Witness ==
  \E p \in Testers :
    /\ wf[p].step = "confirm"
    /\ ~wf[p].atRoom
    /\ wf[p].responses # <<>>
    /\ CompletedOf(cookie, FlowId, p) = wf[p].responses
    /\ ~Includes(wf[p].responses, wf[p].room)

\* the step ends a run of p's handleConfirmLocation in its catch block
Aborts(p) ==
  /\ wf'[p] # wf[p]
  /\ wf[p].step \in CallSteps
  /\ wf'[p].step = "confirm"
  /\ wf'[p].error

\* the step is p's closeRoomSession reaching the device
ClosesSession(p) ==
  /\ wf[p].step = "close"
  /\ wf'[p].submit.closeOk
  /\ hw' = MockStandby(hw).m

\* C34: a run that aborts does not call standby.  While the device is in
\* phase error with no timer armed, a run that starts does not pressurize, a
\* selectRoom call of a run fails and aborts the run, and the device stays
\* in phase error with no timer armed until the closeRoomSession of a rating
\* submission puts it into standby.
C34_ErrorOutlastsAbort ==
  [][ /\ \A p \in Testers : Aborts(p) =>
            /\ wf'[p].last.op \in {"getStatus", "pressurize", "selectRoom", "openRoom"}
            /\ hw' # hw => hw'.state = "error"
      /\ (hw.state = "error" /\ hw.timers = {}) =>
            /\ \A p \in Testers :
                 /\ wf'[p].runs # wf[p].runs =>
                      \/ wf'[p].step = "select"
                      \/ Aborts(p) /\ wf'[p].last.outcome = "failed"
                 /\ wf'[p].step = "pressurize" => wf[p].step = "pressurize"
                 /\ (wf[p].step = "select" /\ wf'[p] # wf[p]) =>
                      /\ Aborts(p)
                      /\ wf'[p].last = Entry("selectRoom", wf[p].room, "failed", "none")
            /\ \/ hw'.state = "error" /\ hw'.timers = {}
               \/ \E p \in Testers : ClosesSession(p) ]_vars

\* a run that started in phase error has aborted at selectRoom and the
\* device is still in phase error
C34_Witness ==
  \E p \in Testers :
    /\ wf[p].step = "confirm" /\ wf[p].error
    /\ wf[p].last = Entry("selectRoom", wf[p].room, "failed", "none")
    /\ \E q \in Testers \ {p} :
         wf[q].step = "confirm" /\ wf[q].error /\ wf[q].last.op = "selectRoom"
    /\ hw.state = "error" /\ hw.timers = {}
    /\ Runs > 2

TypeOK ==
  /\ now \in 1..(MaxClock + 1)
  /\ \A a \in Stored : a.analysisId \in AnalysisIds \cup StoreIds

====
